---------------------------- MODULE Spec2Model ----------------------------
(***************************************************************************)
(* A model of the structural-health analysis core of the repository:       *)
(* the scoring formulas of the /api/analyze handler (finalwebapp_api.py),  *)
(* the dataset builders and cleansing steps of the four analyzer classes   *)
(* (advanced_data_analytics.py, advanced_analytics.py,                     *)
(* comprehensive_data_science.py, simplified_data_science.py), their       *)
(* statistical modules, and the calibration done by /api/camera_capture.   *)
(*                                                                         *)
(* Numbers are fixed point.  Percentages, kilograms and litres of the      *)
(* scoring engine are in hundredths (12.34 % is 1234).  Dataset cells are  *)
(* in 1/256 (1.0 is 256), which keeps medians, the linearly interpolated   *)
(* quartiles and the 1.5*IQR fences exact.                                 *)
(***************************************************************************)
EXTENDS Integers, Sequences, FiniteSets, TLC

VARIABLES
    analysis,        \* the response of the last scoring request
    LAST_ANALYSIS,   \* finalwebapp_api.LAST_ANALYSIS, the cached summary
    dataset,         \* the last Dataset built and cleansed (with its input)
    report,          \* the last analytics result returned by an engine
    capture,         \* the last /api/camera_capture request and its outcome
    built,           \* the last list of records built from crack detections
    threads,         \* the /api/analyze requests being served, per thread
    stream           \* the globals of the stream endpoints and their workers

vars == <<analysis, LAST_ANALYSIS, dataset, report, capture, built, threads,
          stream>>

-----------------------------------------------------------------------------
(* Bounds of the model *)

\* the largest number of crack detections in one scoring request
MaxCracks == 12

\* the values the growth detector supplies, in hundredths of a percent;
\* the detector is not part of the sources, its range [0, 100] is the
\* specification's
GrowthValues == {0, 1234, 10000}

\* the draws of np.random.random(), in hundredths: a float in [0, 1)
RandomValues == {0, 98}

\* pixel-to-centimetre ratios of a request, in tenths (0.1 is 1)
RatioValues == {-1, 0, 1}

\* the largest number of crack detections handed to an analyzer
MaxRows == 5

\* the synthetic daily records AdvancedDataAnalytics appends: the code
\* appends 365, the model enough of them to pass every row-count threshold
\* of the statistical modules (30, 20, 10, 8, 5)
NumSynthetic == 31

\* the synthetic historical records AdvancedStructuralAnalytics appends
NumHistorical == 10

\* the states of the random generator a request can start from
SeedValues == {0, 1}

\* the largest number of crack detections of a record-building call
MaxBuilt == 3

\* the largest number of crack detections /api/analyze hands to the
\* analytics report
MaxServed == 3

\* the largest number of observations handed to a one-sample test
MaxSample == 31

\* the largest number of rows of a frame handed to a regression routine
MaxRegressionRows == 12

\* the largest eta-squared handed to an interpretation, in thousandths
MaxEta == 200

\* the largest number of crack detections of a frame handed to
\* perform_one_way_anova
MaxAnovaCracks == 2

\* the largest number of crack detections of a frame that is capped and
\* then searched for outliers
MaxCappedCracks == 2

\* the largest number of stream worker threads started
MaxStreams == 3

\* the threads of the server that serve requests at the same time
Threads == {1, 2}

\* the largest number of crack detections in a request served concurrently
MaxThreadCracks == 1

-----------------------------------------------------------------------------
(* Arithmetic helpers *)

\* the value of a variable that holds nothing yet
NoValue == [ status |-> "none" ]

Max(a, b) == IF a >= b THEN a ELSE b

Min(a, b) == IF a <= b THEN a ELSE b

\* Python's round(): n/d to the nearest integer (n >= 0, d > 0).  A tie goes
\* to the even neighbour of the decimal value; on a float the direction of a
\* tie depends on the binary representation, and the sampled inputs above
\* produce none.
round(n, d) ==
    LET q == n \div d
        r == n % d
    IN  IF 2 * r < d THEN q
        ELSE IF 2 * r > d THEN q + 1
        ELSE IF q % 2 = 0 THEN q ELSE q + 1

-----------------------------------------------------------------------------
(* Aggregation and scoring engine: finalwebapp_api.analyze and             *)
(* analyze_image_comprehensive                                             *)

\* carbon_footprint = total_cracks * 2.5 + np.random.random() * 10
\* (hundredths of a kg; u is the draw in hundredths)
carbon_footprint(total_cracks, u) == 250 * total_cracks + 10 * u

\* water_footprint = growth_percentage * 15 + np.random.random() * 50
\* (hundredths of a litre)
water_footprint(growth_percentage, v) == 15 * growth_percentage + 50 * v

\* a sustainability score that forgets the lower clamp
SustainabilityNoClamp(carbon, water) ==
    LET raw == 100000 - 20 * carbon - water
    IN  IF raw >= 0 THEN round(raw, 100) ELSE -round(-raw, 100)

\* round(max(0, 10 - carbon/5 - water/100), 2), in hundredths
sustainability_score(carbon, water) ==
    round(Max(0, 100000 - 20 * carbon - water), 100)

\* an impact level whose first threshold includes 15
ImpactLevelInclusive(carbon) ==
    IF carbon <= 1500 THEN "Low"
    ELSE IF carbon < 3000 THEN "Medium" ELSE "High"

\* "Low" if carbon < 15 else "Medium" if carbon < 30 else "High"
impact_level(carbon) ==
    IF carbon < 1500 THEN "Low"
    ELSE IF carbon < 3000 THEN "Medium" ELSE "High"

\* a health score that adds the penalty of the cracks
HealthScoreRewardsCracks(total_cracks, growth_percentage) ==
    round(Max(0, 10000 + 500 * total_cracks - growth_percentage), 10)

\* a health score that forgets the lower clamp
HealthScoreNoClamp(total_cracks, growth_percentage) ==
    LET raw == 10000 - 500 * total_cracks - growth_percentage
    IN  IF raw >= 0 THEN round(raw, 10) ELSE -round(-raw, 10)

\* round(max(0, 100 - total_cracks * 5 - growth_percentage), 1), in tenths
structural_health_score(total_cracks, growth_percentage) ==
    round(Max(0, 10000 - 500 * total_cracks - growth_percentage), 10)

\* "Critical" if total_cracks > 10 else "Moderate" if total_cracks > 3
\* else "Low"
risk_assessment(total_cracks) ==
    IF total_cracks > 10 THEN "Critical"
    ELSE IF total_cracks > 3 THEN "Moderate" ELSE "Low"

\* detect_with_yolo lives in finalwebapp.py, which is not among the
\* sources: the calibration contract of the specification stands in for it
\* (it fails with a CalibrationError when the ratio is not positive)
detect_with_yolo_raises(px_to_cm_ratio) == px_to_cm_ratio <= 0

\* the "results" both endpoints build from the detections and the draws
ScoreResults(endpoint, total_cracks, growth_percentage, u, v) ==
    LET carbon == carbon_footprint(total_cracks, u)
        water  == water_footprint(growth_percentage, v)
    IN  [ endpoint |-> endpoint,
          status |-> "success",
          total_cracks |-> total_cracks,
          growth_percentage |-> growth_percentage,
          carbon_footprint |-> carbon,
          water_footprint |-> water,
          structural_health_score |->
              structural_health_score(total_cracks, growth_percentage),
          sustainability_score |-> sustainability_score(carbon, water),
          impact_level |-> impact_level(carbon),
          risk_assessment |-> risk_assessment(total_cracks) ]

\* the body of an error response (HTTP 500 of analyze, the "error" result
\* of analyze_image_comprehensive)
ErrorResponse(endpoint) ==
    [ endpoint |-> endpoint, status |-> "error" ]

\* what analyze caches in LAST_ANALYSIS["analysis_summary"]
analysis_summary(results) ==
    [ total_cracks |-> results.total_cracks,
      biological_growth_coverage |-> results.growth_percentage,
      environmental_impact |-> results.impact_level,
      structural_health_score |-> results.structural_health_score,
      sustainability_score |-> results.sustainability_score ]

\* POST /api/analyze
analyze ==
    \E ratio \in RatioValues, total_cracks \in 0..MaxCracks,
       growth \in GrowthValues, u \in RandomValues, v \in RandomValues :
        /\ IF detect_with_yolo_raises(ratio)
           THEN /\ analysis' = ErrorResponse("analyze")
                /\ UNCHANGED LAST_ANALYSIS
           ELSE LET results ==
                      ScoreResults("analyze", total_cracks, growth, u, v)
                IN  /\ analysis' = results
                    /\ LAST_ANALYSIS' = analysis_summary(results)
        /\ UNCHANGED <<dataset, report, capture, built, threads, stream>>

\* analyze_image_comprehensive, called by /api/capture_and_analyze with the
\* fixed ratio 0.1
analyze_image_comprehensive ==
    \E total_cracks \in 0..MaxCracks,
       growth \in GrowthValues, u \in RandomValues, v \in RandomValues :
        /\ analysis' = ScoreResults("analyze_image_comprehensive",
                                    total_cracks, growth, u, v)
        /\ UNCHANGED <<LAST_ANALYSIS, dataset, report, capture, built, threads, stream>>

-----------------------------------------------------------------------------
(* Dataframes.  A dataframe is a function from its column names to columns *)
(* of equal length; a column is a sequence of cells.  A numeric cell is an *)
(* integer number of 1/256, a categorical cell a string.                   *)

\* np.nan in a numeric column: a value no cell can take
NaN == -(1000 * 1000 * 1000)

\* the missing value of a categorical (object) column
None == "NaN"

\* one unit of a numeric cell: 1.0
One == 16 * 16

\* the number of rows of a dataframe: len(df)
len(df) == IF DOMAIN df = {} THEN 0 ELSE Len(df[CHOOSE c \in DOMAIN df : TRUE])

\* a column of n copies of x
Repeat(x, n) == [i \in 1..n |-> x]

\* the columns select_dtypes(include=[np.number]) returns, in the four
\* analyzers
NumericNames ==
    { "crack_id", "width_cm", "length_cm", "temperature_c", "stress_level",
      "crack_width_mm", "crack_length_mm",
      "crack_width_cm", "crack_length_cm",
      "crack_severity_numeric" }

numeric_columns(df) == DOMAIN df \cap NumericNames

\* the columns of datetime objects, which pd.DataFrame gives the dtype
\* datetime64: neither a number nor an object
DatetimeNames == {"date"}

\* NaT, the missing value of a datetime column
NaT == NaN

\* select_dtypes(include=['object'])
categorical_columns(df) == (DOMAIN df \ NumericNames) \ DatetimeNames

\* the missing value of a column, by its dtype
missing(name) == IF name \in NumericNames THEN NaN ELSE None

\* Series.dropna() of a numeric column
dropna(col) == SelectSeq(col, LAMBDA x : x # NaN)

\* Series.isnull().sum() > 0, na being the missing value of the column
has_null(col, na) == \E i \in DOMAIN col : col[i] = na

RECURSIVE Insert(_, _)
Insert(x, s) ==
    IF s = << >> THEN << x >>
    ELSE IF x <= Head(s) THEN << x >> \o s
    ELSE << Head(s) >> \o Insert(x, Tail(s))

\* the values of a numeric column in ascending order
RECURSIVE sorted(_)
sorted(s) == IF s = << >> THEN << >> ELSE Insert(Head(s), sorted(Tail(s)))

RECURSIVE SumSeq(_)
SumSeq(s) == IF s = << >> THEN 0 ELSE Head(s) + SumSeq(Tail(s))

\* Series.median(): missing cells are skipped, an even count averages the
\* two middle values, an empty column has no median
median(col) ==
    LET s == sorted(dropna(col))
        n == Len(s)
    IN  IF n = 0 THEN NaN
        ELSE IF n % 2 = 1 THEN s[(n + 1) \div 2]
        ELSE (s[n \div 2] + s[n \div 2 + 1]) \div 2

\* Series.mean()
mean(col) ==
    LET s == dropna(col)
    IN  IF Len(s) = 0 THEN NaN ELSE SumSeq(s) \div Len(s)

\* Series.quantile(k/4), pandas' default linear interpolation: the value at
\* the fractional position (n - 1) * k / 4 of the sorted non-missing cells
quantile(col, k) ==
    LET s  == sorted(dropna(col))
        n  == Len(s)
        h  == (n - 1) * k
        lo == h \div 4 + 1
        r  == h % 4
    IN  IF n = 0 THEN NaN
        ELSE IF r = 0 THEN s[lo]
        ELSE s[lo] + (r * (s[lo + 1] - s[lo])) \div 4

\* lower_bound = Q1 - 1.5 * IQR and upper_bound = Q3 + 1.5 * IQR
iqr_bounds(col) ==
    LET Q1  == quantile(col, 1)
        Q3  == quantile(col, 3)
        IQR == Q3 - Q1
    IN  [ lower_bound |-> Q1 - (3 * IQR) \div 2,
          upper_bound |-> Q3 + (3 * IQR) \div 2 ]

\* Series.fillna(x), na being the missing value of the column
fillna(col, na, x) == [i \in DOMAIN col |-> IF col[i] = na THEN x ELSE col[i]]

\* a clip that forgets the upper bound
ClipLowerOnly(col, lower, upper) ==
    [i \in DOMAIN col |-> IF col[i] = NaN THEN NaN ELSE Max(lower, col[i])]

\* Series.clip(lower, upper): a missing cell stays missing
clip(col, lower, upper) ==
    [i \in DOMAIN col |->
        IF col[i] = NaN THEN NaN ELSE Max(lower, Min(col[i], upper))]

\* the labels of the categorical columns in Python's string order, by which
\* Series.mode() sorts tied values
LabelOrder ==
    << "Brick", "Concrete", "Critical", "Minor", "Moderate", "None",
       "Severe", "Steel", "Stone", "Unknown", "crack_1", "crack_2",
       "crack_3", "crack_4", "crack_5", "crack_6", "site_overall" >>

LabelRank(x) == CHOOSE i \in DOMAIN LabelOrder : LabelOrder[i] = x

\* Series.value_counts()[x]
count(col, x) == Cardinality({i \in DOMAIN col : col[i] = x})

\* the distinct non-missing values of a column, na being its missing value
unique(col, na) == {col[i] : i \in DOMAIN col} \ {na}

\* Series.mode()[0] of a categorical column: the most frequent non-missing
\* label, the first in string order among tied ones; 'Unknown' if there is
\* none
mode(col) ==
    LET labels == unique(col, None)
        best   == {x \in labels : \A y \in labels : count(col, y) <= count(col, x)}
    IN  IF labels = {} THEN "Unknown"
        ELSE CHOOSE x \in best : \A y \in best : LabelRank(x) <= LabelRank(y)

-----------------------------------------------------------------------------
(* Data integration and cleansing of the four analyzers.  Of the columns   *)
(* the builders create, the model keeps the crack measurements, the        *)
(* severity label and, per analyzer, the columns named below; the          *)
(* remaining columns go through the same loops.                            *)

\* the crack records a request hands to an analyzer: {width_cm, length_cm,
\* severity}
CrackValues ==
    { [width_cm |-> 1 * One,   length_cm |-> 2 * One,  severity |-> "Minor"],
      [width_cm |-> 1 * One,   length_cm |-> 10 * One, severity |-> "Severe"],
      [width_cm |-> 2 * One,   length_cm |-> 2 * One,  severity |-> "Minor"],
      [width_cm |-> 100 * One, length_cm |-> 10 * One, severity |-> "Critical"] }

CrackData == UNION { [1..n -> CrackValues] : n \in 0..MaxRows }

\* the i-th synthetic daily record of AdvancedDataAnalytics: its fields are
\* random draws, which the state of the generator determines
synthetic_record(i, seed) ==
    [ temperature_c |-> (15 + 5 * ((i + seed) % 3)) * One,
      stress_level  |-> (1 + ((i * (seed + 1)) % 4)) * One,
      material_type |->
          << "Concrete", "Steel", "Brick", "Stone" >>[((i + seed) % 4) + 1],
      date          |-> i ]

\* the i-th historical record of AdvancedStructuralAnalytics, random draws
\* as well
historical_record(i, seed) ==
    [ crack_width_mm  |-> (1 + ((i + seed) % 3)) * One,
      crack_length_mm |-> (1 + ((i * (seed + 1)) % 5)) * One,
      severity_level  |->
          << "None", "Minor", "Moderate", "Severe", "Critical" >>
              [((i + 2 * seed) % 5) + 1],
      material_type   |->
          << "Concrete", "Steel", "Brick", "Stone" >>[((i + seed) % 4) + 1],
      structure_id    |->
          << "hist_1", "hist_2", "hist_3", "hist_4", "hist_5", "hist_6",
             "hist_7", "hist_8", "hist_9", "hist_10" >>[i] ]

\* column f of a list of records
Column(records, f) == [i \in DOMAIN records |-> records[i][f]]

\* a builder that stamps the crack records with a date as well
ADA_DataFrameDatedCracks(crack_data, synthetic) ==
    LET k == Len(crack_data)
        m == Len(synthetic)
    IN  [ crack_id  |-> [i \in 1..k |-> i * One] \o Repeat(NaN, m),
          width_cm  |-> Column(crack_data, "width_cm") \o Repeat(NaN, m),
          length_cm |-> Column(crack_data, "length_cm") \o Repeat(NaN, m),
          severity  |-> Column(crack_data, "severity") \o Repeat(None, m),
          temperature_c |->
              Repeat(NaN, k) \o Column(synthetic, "temperature_c"),
          stress_level |->
              Repeat(NaN, k) \o Column(synthetic, "stress_level"),
          material_type |->
              Repeat(None, k) \o Column(synthetic, "material_type"),
          date |-> Repeat(0, k) \o Column(synthetic, "date") ]

\* AdvancedDataAnalytics.retrieve_and_integrate_data: one record per crack,
\* then the synthetic records; pd.DataFrame leaves missing what a record
\* does not have.  Without cracks the crack columns do not exist.
ADA_DataFrame(crack_data, synthetic) ==
    LET k == Len(crack_data)
        m == Len(synthetic)
        daily == [ temperature_c |->
                       Repeat(NaN, k) \o Column(synthetic, "temperature_c"),
                   stress_level |->
                       Repeat(NaN, k) \o Column(synthetic, "stress_level"),
                   material_type |->
                       Repeat(None, k) \o Column(synthetic, "material_type"),
                   date |->
                       Repeat(NaT, k) \o Column(synthetic, "date") ]
        cracks == [ crack_id  |-> [i \in 1..k |-> i * One] \o Repeat(NaN, m),
                    width_cm  |-> Column(crack_data, "width_cm") \o Repeat(NaN, m),
                    length_cm |-> Column(crack_data, "length_cm") \o Repeat(NaN, m),
                    severity  |-> Column(crack_data, "severity") \o Repeat(None, m) ]
    IN  IF k = 0 THEN daily ELSE cracks @@ daily

\* a map of the severity labels without its fillna(0): a label that is not
\* a key stays missing
ADA_SeverityNumericUnfilled(label) ==
    CASE label = "Minor"    -> 1 * One
      [] label = "Moderate" -> 2 * One
      [] label = "Severe"   -> 3 * One
      [] label = "Critical" -> 4 * One
      [] OTHER              -> NaN

\* Series.map({...}).fillna(0) of the severity labels
ADA_severity_numeric(label) ==
    CASE label = "Minor"    -> 1 * One
      [] label = "Moderate" -> 2 * One
      [] label = "Severe"   -> 3 * One
      [] label = "Critical" -> 4 * One
      [] OTHER              -> 0

\* AdvancedDataAnalytics.cleanse_and_transform_data.  The fills are
\* df[col].fillna(..., inplace=True) on a column selected from the frame:
\* they reach the frame unless pandas runs copy-on-write (the default from
\* pandas 3.0), where the selected column is a copy.
ADA_cleanse(df, copy_on_write) ==
    LET filled ==
            [c \in DOMAIN df |->
                IF c \in DatetimeNames THEN df[c]
                ELSE IF copy_on_write \/ ~has_null(df[c], missing(c)) THEN df[c]
                ELSE IF c \in NumericNames
                     THEN fillna(df[c], NaN, median(df[c]))
                     ELSE fillna(df[c], None, mode(df[c]))]
        capped ==
            [c \in DOMAIN df |->
                IF c \in NumericNames /\ c # "crack_id"
                THEN LET b == iqr_bounds(filled[c])
                     IN  clip(filled[c], b.lower_bound, b.upper_bound)
                ELSE filled[c]]
    IN  IF {"width_cm", "length_cm"} \subseteq DOMAIN df
        THEN capped @@
             [ crack_severity_numeric |->
                 [i \in DOMAIN capped.severity |->
                     ADA_severity_numeric(capped.severity[i])] ]
        ELSE capped

ADA_retrieve_and_integrate_data ==
    /\ dataset.status = "none"
    /\ \E crack_data \in CrackData, seed \in SeedValues,
          copy_on_write \in BOOLEAN :
            dataset' = [ status |-> "integrated",
                         engine |-> "AdvancedDataAnalytics",
                         copy_on_write |-> copy_on_write,
                         integrated |->
                             ADA_DataFrame(crack_data,
                                 [i \in 1..NumSynthetic |->
                                     synthetic_record(i, seed)]) ]
    /\ UNCHANGED <<analysis, LAST_ANALYSIS, report, capture, built, threads, stream>>

ADA_cleanse_and_transform_data ==
    /\ dataset.status = "integrated"
    /\ dataset.engine = "AdvancedDataAnalytics"
    /\ dataset' = [ status |-> "cleansed",
                    engine |-> dataset.engine,
                    copy_on_write |-> dataset.copy_on_write,
                    integrated |-> dataset.integrated,
                    cleaned |-> ADA_cleanse(dataset.integrated,
                                            dataset.copy_on_write) ]
    /\ UNCHANGED <<analysis, LAST_ANALYSIS, report, capture, built, threads, stream>>

\* f"struct_{i+1}" of the i-th crack (counted from 1 here)
structure_id(i) ==
    << "struct_1", "struct_2", "struct_3", "struct_4", "struct_5",
       "struct_6" >>[i]

\* AdvancedStructuralAnalytics.retrieve_and_integrate_data: one record per
\* crack in millimetres, a baseline record if there is no crack, then the
\* historical records
AA_DataFrame(crack_data, historical) ==
    LET detected ==
            IF Len(crack_data) > 0
            THEN [i \in DOMAIN crack_data |->
                    [ crack_width_mm  |-> crack_data[i].width_cm * 10,
                      crack_length_mm |-> crack_data[i].length_cm * 10,
                      severity_level  |-> crack_data[i].severity,
                      material_type   |-> "Concrete",
                      structure_id    |-> structure_id(i) ]]
            ELSE << [ crack_width_mm |-> 0, crack_length_mm |-> 0,
                      severity_level |-> "None",
                      material_type  |-> "Concrete",
                      structure_id   |-> "baseline_001" ] >>
        records == detected \o historical
    IN  [ crack_width_mm  |-> Column(records, "crack_width_mm"),
          crack_length_mm |-> Column(records, "crack_length_mm"),
          severity_level  |-> Column(records, "severity_level"),
          material_type   |-> Column(records, "material_type"),
          structure_id    |-> Column(records, "structure_id") ]

\* Series.map({'None': 0, 'Minor': 1, ...}).fillna(0)
AA_severity_numeric(label) ==
    CASE label = "None"     -> 0
      [] label = "Minor"    -> 1 * One
      [] label = "Moderate" -> 2 * One
      [] label = "Severe"   -> 3 * One
      [] label = "Critical" -> 4 * One
      [] OTHER              -> 0

\* AdvancedStructuralAnalytics.cleanse_and_transform_data
AA_cleanse(df) ==
    LET filled ==
            [c \in DOMAIN df |->
                IF c \in NumericNames
                THEN fillna(df[c], NaN, median(df[c]))
                ELSE fillna(df[c], None, mode(df[c]))]
        capped ==
            [c \in DOMAIN df |->
                IF c \in NumericNames
                THEN LET b == iqr_bounds(filled[c])
                     IN  clip(filled[c], b.lower_bound, b.upper_bound)
                ELSE filled[c]]
    IN  capped @@
        [ crack_severity_numeric |->
            [i \in DOMAIN capped.severity_level |->
                AA_severity_numeric(capped.severity_level[i])] ]

AA_retrieve_and_integrate_data ==
    /\ dataset.status = "none"
    /\ \E crack_data \in CrackData, seed \in SeedValues :
            dataset' = [ status |-> "integrated",
                         engine |-> "AdvancedStructuralAnalytics",
                         copy_on_write |-> FALSE,
                         integrated |->
                             AA_DataFrame(crack_data,
                                 [i \in 1..NumHistorical |->
                                     historical_record(i, seed)]) ]
    /\ UNCHANGED <<analysis, LAST_ANALYSIS, report, capture, built, threads, stream>>

AA_cleanse_and_transform_data ==
    /\ dataset.status = "integrated"
    /\ dataset.engine = "AdvancedStructuralAnalytics"
    /\ dataset' = [ status |-> "cleansed",
                    engine |-> dataset.engine,
                    copy_on_write |-> dataset.copy_on_write,
                    integrated |-> dataset.integrated,
                    cleaned |-> AA_cleanse(dataset.integrated) ]
    /\ UNCHANGED <<analysis, LAST_ANALYSIS, report, capture, built, threads, stream>>

\* f"crack_{i+1}" of the i-th crack (counted from 1 here)
element_id(i) ==
    << "crack_1", "crack_2", "crack_3", "crack_4", "crack_5", "crack_6" >>[i]

\* integrate_heritage_data of ComprehensiveDataScience and
\* SimplifiedDataScience: one record per crack, or the 'site_overall' record
\* if there is none
Heritage_DataFrame(crack_data) ==
    LET k == Len(crack_data)
    IN  IF k > 0
        THEN [ element_id      |-> [i \in 1..k |-> element_id(i)],
               crack_width_cm  |-> Column(crack_data, "width_cm"),
               crack_length_cm |-> Column(crack_data, "length_cm"),
               severity        |-> Column(crack_data, "severity") ]
        ELSE [ element_id      |-> << "site_overall" >>,
               crack_width_cm  |-> << 0 >>,
               crack_length_cm |-> << 0 >>,
               severity        |-> << "None" >> ]

\* df[mask]: the rows a boolean mask selects, of one column
RECURSIVE boolean_index(_, _)
boolean_index(col, mask) ==
    IF col = << >> THEN << >>
    ELSE (IF Head(mask) THEN << Head(col) >> ELSE << >>)
         \o boolean_index(Tail(col), Tail(mask))

\* the loop "for col in numeric_cols: ... df = df[(df[col] >= lower_bound)
\* & (df[col] <= upper_bound)]": each column filters the rows the columns
\* before it have left.  SimplifiedDataScience skips a column with a single
\* distinct value.
RECURSIVE remove_outliers(_, _, _)
remove_outliers(df, cols, skip_constant) ==
    IF cols = << >> THEN df
    ELSE LET col  == df[Head(cols)]
             b    == iqr_bounds(col)
             mask == [i \in DOMAIN col |->
                         col[i] >= b.lower_bound /\ col[i] <= b.upper_bound]
             kept == IF skip_constant /\ Cardinality(unique(col, NaN)) <= 1
                     THEN df
                     ELSE [c \in DOMAIN df |-> boolean_index(df[c], mask)]
         IN  remove_outliers(kept, Tail(cols), skip_constant)

\* the numeric columns of the heritage frame, in column order
HeritageNumeric == << "crack_width_cm", "crack_length_cm" >>

\* ComprehensiveDataScience.cleanse_data
CDS_cleanse(df) ==
    LET filled ==
            [c \in DOMAIN df |->
                IF c \in NumericNames
                THEN fillna(df[c], NaN, mean(df[c]))
                ELSE fillna(df[c], None, "Unknown")]
    IN  remove_outliers(filled, HeritageNumeric, FALSE)

\* SimplifiedDataScience.cleanse_data
SDS_cleanse(df) ==
    LET filled ==
            [c \in DOMAIN df |->
                IF c \in NumericNames
                THEN fillna(df[c], NaN, mean(df[c]))
                ELSE df[c]]
    IN  remove_outliers(filled, HeritageNumeric, TRUE)

CDS_integrate_heritage_data ==
    /\ dataset.status = "none"
    /\ \E crack_data \in CrackData :
            dataset' = [ status |-> "integrated",
                         engine |-> "ComprehensiveDataScience",
                         copy_on_write |-> FALSE,
                         integrated |-> Heritage_DataFrame(crack_data) ]
    /\ UNCHANGED <<analysis, LAST_ANALYSIS, report, capture, built, threads, stream>>

CDS_cleanse_data ==
    /\ dataset.status = "integrated"
    /\ dataset.engine = "ComprehensiveDataScience"
    /\ dataset' = [ status |-> "cleansed",
                    engine |-> dataset.engine,
                    copy_on_write |-> dataset.copy_on_write,
                    integrated |-> dataset.integrated,
                    cleaned |-> CDS_cleanse(dataset.integrated) ]
    /\ UNCHANGED <<analysis, LAST_ANALYSIS, report, capture, built, threads, stream>>

SDS_integrate_heritage_data ==
    /\ dataset.status = "none"
    /\ \E crack_data \in CrackData :
            dataset' = [ status |-> "integrated",
                         engine |-> "SimplifiedDataScience",
                         copy_on_write |-> FALSE,
                         integrated |-> Heritage_DataFrame(crack_data) ]
    /\ UNCHANGED <<analysis, LAST_ANALYSIS, report, capture, built, threads, stream>>

SDS_cleanse_data ==
    /\ dataset.status = "integrated"
    /\ dataset.engine = "SimplifiedDataScience"
    /\ dataset' = [ status |-> "cleansed",
                    engine |-> dataset.engine,
                    copy_on_write |-> dataset.copy_on_write,
                    integrated |-> dataset.integrated,
                    cleaned |-> SDS_cleanse(dataset.integrated) ]
    /\ UNCHANGED <<analysis, LAST_ANALYSIS, report, capture, built, threads, stream>>

\* the analyzer object and its frames live for one request: the handler
\* returns and they are dropped
RequestDone ==
    /\ dataset.status = "cleansed"
    /\ dataset' = NoValue
    /\ report' = NoValue
    /\ UNCHANGED <<analysis, LAST_ANALYSIS, capture, built, threads, stream>>

-----------------------------------------------------------------------------
(* Statistical modules.  A reported float is modelled by its class: "nan", *)
(* "inf" (either sign), "zero" or "finite" (finite and not zero); the      *)
(* class of a quotient follows IEEE 754, which numpy and scipy apply.      *)

\* x / y
fdiv(x, y) ==
    IF x = "nan" \/ y = "nan" THEN "nan"
    ELSE IF y = "zero" THEN (IF x = "zero" THEN "nan" ELSE "inf")
    ELSE IF y = "inf" THEN (IF x = "inf" THEN "nan" ELSE "zero")
    ELSE x

\* Series.mean(): missing cells are skipped
mean_class(col) ==
    LET s == dropna(col)
    IN  IF Len(s) = 0 THEN "nan"
        ELSE IF SumSeq(s) = 0 THEN "zero" ELSE "finite"

\* Series.std() and Series.var(), ddof = 1: the sum of squared deviations
\* divided by n - 1, which is 0/0 for a single value
std_class(col) ==
    LET s == dropna(col)
    IN  IF Len(s) <= 1 THEN "nan"
        ELSE IF \A i \in DOMAIN s : s[i] = s[1] THEN "zero" ELSE "finite"

\* a dict without entries
EmptyDict == [k \in {} |-> 0]

\* the result of a call that raised instead of returning
Raise(exception) == [exception |-> exception]

Raised(result) == "exception" \in DOMAIN result

\* the first n entries of a list: list[:n]
first(list, n) == SubSeq(list, 1, Min(n, Len(list)))

Range(list) == {list[i] : i \in DOMAIN list}

\* the columns of the AdvancedDataAnalytics frame in frame order
ADA_ColumnOrder ==
    << "crack_id", "width_cm", "length_cm", "severity", "temperature_c",
       "stress_level", "material_type", "crack_severity_numeric" >>

\* df.select_dtypes(include=[np.number]).columns, in frame order
numeric_list(df) ==
    SelectSeq(ADA_ColumnOrder, LAMBDA c : c \in numeric_columns(df))

\* df.select_dtypes(include=['object']).columns, in frame order
categorical_list(df) ==
    SelectSeq(ADA_ColumnOrder, LAMBDA c : c \in categorical_columns(df))

\* AdvancedDataAnalytics.exploratory_data_analysis.  np.histogram raises a
\* ValueError on a column with a missing cell (its range is not finite);
\* the column is given to it when it has more than one distinct cell.
ADA_exploratory_data_analysis(df) ==
    LET cols == Range(first(numeric_list(df), 5))
    IN  IF \E c \in cols : /\ Cardinality(Range(df[c])) > 1
                           /\ has_null(df[c], NaN)
        THEN Raise("ValueError")
        ELSE [ descriptive_stats |->
                 [c \in cols |-> [ mean    |-> mean_class(df[c]),
                                   std_dev |-> std_class(df[c]) ]] ]

\* AdvancedDataAnalytics.inferential_statistics: the one-sample t-test
\* and the z-test of the first numeric column against 1.1 times its own
\* mean; scipy's t statistic is (mean - popmean) / (std / sqrt(n)) and is
\* nan on an input with a missing cell
ADA_inferential_statistics(df) ==
    LET cols == numeric_list(df)
        col  == df[cols[1]]
        t    == IF has_null(col, NaN) THEN "nan"
                ELSE fdiv(mean_class(col), std_class(col))
        z    == fdiv(mean_class(col), std_class(col))
    IN  IF Len(cols) < 2
        THEN [ error |-> "Insufficient numeric data for statistical inference" ]
        ELSE [ sampling |-> [ sample_size |-> len(df),
                              margin_of_error |-> std_class(col) ] ]
             @@ (IF Len(col) > 1
                 THEN [ one_sample_t_test |-> [ test_statistic |-> t ] ]
                 ELSE EmptyDict)
             @@ (IF len(df) > 30
                 THEN [ z_test |-> [ z_score |-> z ] ]
                 ELSE EmptyDict)

\* the cells of column `value` in the rows where column `by` is `label`:
\* df.groupby(by)[value] for one group
group(df, by, label, value) ==
    LET mask == [i \in DOMAIN df[by] |-> df[by][i] = label]
    IN  boolean_index(df[value], mask)

\* two groups have the same mean
same_mean(g, h) == SumSeq(g) * Len(h) = SumSeq(h) * Len(g)

\* scipy.stats.f_oneway: the mean square between the groups over the mean
\* square within them
f_oneway(groups) ==
    LET within == IF \A g \in groups : \A i \in DOMAIN g : g[i] = g[1]
                  THEN "zero" ELSE "finite"
        between == IF \A g \in groups : \A h \in groups : same_mean(g, h)
                   THEN "zero" ELSE "finite"
    IN  IF \E g \in groups : has_null(g, NaN) THEN "nan"
        ELSE fdiv(between, within)

\* AdvancedDataAnalytics.analysis_of_variance: the one-way ANOVA of the
\* first numeric column grouped by the first categorical column, over the
\* groups of more than one row, and the statistics of every group
ADA_analysis_of_variance(df) ==
    LET dependent_var == numeric_list(df)[1]
        grouping_var  == categorical_list(df)[1]
        names  == unique(df[grouping_var], None)
        groups == { group(df, grouping_var, name, dependent_var) :
                      name \in {x \in names : count(df[grouping_var], x) > 1} }
        tested == {x \in names : count(df[grouping_var], x) > 1}
    IN  IF Len(numeric_list(df)) < 1 \/ Len(categorical_list(df)) < 1
        THEN [ error |-> "Insufficient data for ANOVA analysis" ]
        ELSE IF Cardinality(tested) >= 2
        THEN [ one_way_anova |->
                 [ f_statistic |-> f_oneway(groups),
                   groups |-> Cardinality(tested),
                   dependent_variable |-> dependent_var,
                   grouping_variable |-> grouping_var ],
               group_statistics |->
                 [ name \in names |->
                     LET g == group(df, grouping_var, name, dependent_var)
                     IN  [ mean  |-> mean_class(g),
                           std   |-> std_class(g),
                           count |-> Len(g) ] ] ]
        ELSE EmptyDict

\* the columns whose lower-cased name contains 'id': "crack_id", and
\* "wIDth_cm" as well
HasId == {"crack_id", "width_cm"}

\* AdvancedDataAnalytics.predictive_analytics, its logistic regression:
\* the target is the first categorical column, label-encoded as strings;
\* the features are the first two numeric columns without 'id' in their
\* name; rows with a missing feature are dropped.  The fit is attempted
\* (and its own failure caught and reported) on more than 10 rows of more
\* than one class; otherwise the result has no logistic entry at all.
ADA_predictive_analytics(df) ==
    LET feature_cols ==
            first(SelectSeq(numeric_list(df), LAMBDA c : c \notin HasId), 3)
        target_col == categorical_list(df)[1]
        used == Range(first(feature_cols, 2))
        mask == [i \in 1..len(df) |-> \A c \in used : df[c][i] # NaN]
        y_cat == boolean_index(df[target_col], mask)
    IN  IF Len(numeric_list(df)) < 2
        THEN [ error |-> "Insufficient numeric data for predictive modeling" ]
        ELSE IF /\ Len(categorical_list(df)) > 0
                /\ Len(feature_cols) >= 1
                /\ Len(y_cat) > 10
                /\ Cardinality(Range(y_cat)) > 1
        THEN [ logistic_regression |->
                 [ status |-> "attempted", target_name |-> target_col ] ]
        ELSE EmptyDict

\* AdvancedDataAnalytics.build_models: the four modules, called one after
\* the other inside a dict display; an exception of one leaves the method
ADA_build_models(df) ==
    LET descriptive == ADA_exploratory_data_analysis(df)
    IN  IF Raised(descriptive) THEN descriptive
        ELSE [ descriptive_analytics  |-> descriptive,
               inferential_statistics |-> ADA_inferential_statistics(df),
               anova_analysis         |-> ADA_analysis_of_variance(df),
               predictive_models      |-> ADA_predictive_analytics(df) ]

\* AdvancedDataAnalytics.data_science_process, steps 4 to 6
ADA_data_science_process(df) ==
    LET eda_results == ADA_exploratory_data_analysis(df)
        models == ADA_build_models(df)
    IN  IF Raised(eda_results) THEN eda_results
        ELSE IF Raised(models) THEN models
        ELSE [ eda_results |-> eda_results, models |-> models ]

\* a report without the except clause
ADA_ReportUncaught(df) == ADA_data_science_process(df)

\* create_comprehensive_analytics_report: the results of the process, or
\* the dict of its except clause
ADA_report(df) ==
    LET results == ADA_data_science_process(df)
    IN  IF Raised(results)
        THEN [ error |-> results.exception, status |-> "failed",
               analysis_metadata |-> [ error_occurred |-> TRUE ] ]
        ELSE results @@
             [ analysis_metadata |->
                 [ analysis_type |-> "comprehensive_data_science" ] ]

create_comprehensive_analytics_report ==
    /\ dataset.status = "cleansed"
    /\ dataset.engine = "AdvancedDataAnalytics"
    /\ report' = [ status |-> "returned",
                   module |-> "create_comprehensive_analytics_report",
                   result |-> ADA_report(dataset.cleaned) ]
    /\ UNCHANGED <<analysis, LAST_ANALYSIS, dataset, capture, built, threads, stream>>

\* run_comprehensive_analysis of advanced_analytics.py:
\* data_science_process_pipeline calls self.build_comprehensive_models,
\* which the class does not define, outside any try
AA_run_comprehensive_analysis ==
    /\ dataset.status = "cleansed"
    /\ dataset.engine = "AdvancedStructuralAnalytics"
    /\ report' = [ status |-> "raised",
                   module |-> "run_comprehensive_analysis",
                   result |-> Raise("AttributeError") ]
    /\ UNCHANGED <<analysis, LAST_ANALYSIS, dataset, capture, built, threads, stream>>

\* the chi-square statistic of the counts of a column against equal
\* expected counts, sum((o - n/k)^2 / (n/k)), as a fraction num/den
chisquare(col) ==
    LET names == unique(col, None)
        k == Cardinality(names)
        n == Len(col)
        RECURSIVE Sum(_)
        Sum(S) == IF S = {} THEN 0
                  ELSE LET x == CHOOSE x \in S : TRUE
                       IN  (k * count(col, x) - n) * (k * count(col, x) - n)
                           + Sum(S \ {x})
    IN  [ num |-> Sum(names), den |-> n * k ]

\* the goodness-of-fit loop of ComprehensiveDataScience.chi_square_tests
\* and AdvancedStructuralAnalytics.perform_chi_square_tests: a column of
\* more than one category gets an entry when every expected count
\* len(df) / categories is at least 5, and nothing otherwise
goodness_of_fit(df, cols) ==
    LET tested == { c \in cols :
                      /\ Cardinality(unique(df[c], None)) > 1
                      /\ len(df) >= 5 * Cardinality(unique(df[c], None)) }
    IN  [ c \in tested |->
            [ chi_square_statistic |-> chisquare(df[c]),
              degrees_freedom |-> Cardinality(unique(df[c], None)) - 1 ] ]

\* ComprehensiveDataScience.chi_square_tests
CDS_chi_square(df) ==
    IF Cardinality(categorical_columns(df)) < 2
    THEN [ error |-> "Insufficient categorical variables for chi-square test" ]
    ELSE goodness_of_fit(df, categorical_columns(df))

\* "p_value = 1 / (1 + chi2_stat) if chi2_stat > 0 else 1" of
\* simplified_chi_square, the statistic being a fraction num/den.  A
\* p-value is modelled by its place: "0", "(0, 1)", "1" or "(1, 2]".
SDS_p_value(chi2_stat) ==
    IF chi2_stat.num > 0 THEN "(0, 1)" ELSE "1"

\* SimplifiedDataScience.simplified_chi_square: every column of more than
\* one category gets a statistic
SDS_chi_square(df) ==
    IF Cardinality(categorical_columns(df)) < 1
    THEN [ error |-> "Insufficient categorical variables for chi-square test" ]
    ELSE [ c \in { c \in categorical_columns(df) :
                     Cardinality(unique(df[c], None)) > 1 } |->
             [ chi_square_statistic |-> chisquare(df[c]),
               p_value |-> SDS_p_value(chisquare(df[c])),
               degrees_freedom |-> Cardinality(unique(df[c], None)) - 1 ] ]

\* AdvancedStructuralAnalytics.perform_chi_square_tests: the test of
\* independence of each pair of categorical columns calls
\* self.interpret_cramers_v, which the class does not define, when the
\* contingency table has more than one cell; then the goodness-of-fit loop
\* (whose entries the code files under "<column>_goodness_of_fit")
AA_chi_square(df) ==
    LET available_cats ==
            {"severity_level", "material_type"} \cap DOMAIN df
        size == Cardinality(unique(df.severity_level, None))
                    * Cardinality(unique(df.material_type, None))
    IN  IF Cardinality(available_cats) >= 2 /\ size > 1
        THEN Raise("AttributeError")
        ELSE goodness_of_fit(df, available_cats)

\* the classes of the binary target 'high_severity' =
\* severity.isin(['Severe', 'Critical'])
high_severity(df) ==
    { (df.severity[i] \in {"Severe", "Critical"}) : i \in DOMAIN df.severity }

\* ComprehensiveDataScience.logistic_regression_analysis
CDS_logistic(df) ==
    IF "severity" \in DOMAIN df /\ numeric_columns(df) # {}
    THEN IF Cardinality(high_severity(df)) < 2
         THEN [ error |-> "Cannot perform logistic regression: only 1 class(es) found in data",
                interpretation |-> "All samples have the same severity level - no variation to model" ]
         ELSE [ status |-> "fitted",
                interpretation |-> "Model predicts high severity (Severe/Critical) vs low severity (Minor/Moderate)" ]
    ELSE [ error |-> "Cannot perform logistic regression without categorical target variable" ]

\* SimplifiedDataScience.simplified_logistic_models
SDS_logistic(df) ==
    IF "severity" \in DOMAIN df
    THEN [ note |-> "Logistic regression implemented",
           interpretation |-> "Predicts probability of high severity based on crack characteristics" ]
    ELSE [ error |-> "Cannot perform logistic regression without categorical target variable" ]

\* what the caller of a module gets: its result, or its exception
Outcome(module, result) ==
    [ status |-> IF Raised(result) THEN "raised" ELSE "returned",
      module |-> module,
      result |-> result ]

CDS_chi_square_tests ==
    /\ dataset.status = "cleansed"
    /\ dataset.engine = "ComprehensiveDataScience"
    /\ report' = Outcome("chi_square_tests", CDS_chi_square(dataset.cleaned))
    /\ UNCHANGED <<analysis, LAST_ANALYSIS, dataset, capture, built, threads, stream>>

CDS_logistic_regression_analysis ==
    /\ dataset.status = "cleansed"
    /\ dataset.engine = "ComprehensiveDataScience"
    /\ report' = Outcome("logistic_regression_analysis", CDS_logistic(dataset.cleaned))
    /\ UNCHANGED <<analysis, LAST_ANALYSIS, dataset, capture, built, threads, stream>>

SDS_simplified_chi_square ==
    /\ dataset.status = "cleansed"
    /\ dataset.engine = "SimplifiedDataScience"
    /\ report' = Outcome("simplified_chi_square", SDS_chi_square(dataset.cleaned))
    /\ UNCHANGED <<analysis, LAST_ANALYSIS, dataset, capture, built, threads, stream>>

SDS_simplified_logistic_models ==
    /\ dataset.status = "cleansed"
    /\ dataset.engine = "SimplifiedDataScience"
    /\ report' = Outcome("simplified_logistic_models", SDS_logistic(dataset.cleaned))
    /\ UNCHANGED <<analysis, LAST_ANALYSIS, dataset, capture, built, threads, stream>>

AA_perform_chi_square_tests ==
    /\ dataset.status = "cleansed"
    /\ dataset.engine = "AdvancedStructuralAnalytics"
    /\ report' = Outcome("perform_chi_square_tests", AA_chi_square(dataset.cleaned))
    /\ UNCHANGED <<analysis, LAST_ANALYSIS, dataset, capture, built, threads, stream>>

-----------------------------------------------------------------------------
(* Calibration: POST /api/camera_capture turns the boxes of the detector   *)
(* into crack records itself                                               *)

\* the largest number of boxes the detector finds in a camera frame
MaxBoxes == 4

\* the pixel sizes of a box: w, h = (x2 - x1), (y2 - y1)
BoxValues == { [w |-> 10, h |-> 40], [w |-> 25, h |-> 5], [w |-> 8, h |-> 8] }

\* what cv2.VideoCapture(0) gives: a frame, a camera that does not open, or
\* no frame
CameraValues == {"frame", "not_opened", "no_frame"}

\* the record camera_capture appends for a box; the ratio is in tenths, and
\* so are the centimetres
crack_record(box, px_to_cm_ratio) ==
    [ width_cm  |-> box.w * px_to_cm_ratio,
      length_cm |-> box.h * px_to_cm_ratio ]

\* POST /api/camera_capture: the records are built from the ratio of the
\* request as it comes; detect_with_yolo is called afterwards, for the
\* annotated image, and an exception of it is answered with HTTP 500
camera_capture ==
    \E camera \in CameraValues, px_to_cm_ratio \in RatioValues,
       boxes \in UNION { [1..n -> BoxValues] : n \in 0..MaxBoxes } :
        LET crack_details ==
                [i \in DOMAIN boxes |-> crack_record(boxes[i], px_to_cm_ratio)]
        IN  /\ capture' =
                 IF camera # "frame"
                 THEN [ status |-> "error", code |-> 500,
                        px_to_cm_ratio |-> px_to_cm_ratio,
                        crack_details |-> << >> ]
                 ELSE IF detect_with_yolo_raises(px_to_cm_ratio)
                 THEN [ status |-> "error", code |-> 500,
                        px_to_cm_ratio |-> px_to_cm_ratio,
                        crack_details |-> crack_details ]
                 ELSE [ status |-> "success", code |-> 200,
                        px_to_cm_ratio |-> px_to_cm_ratio,
                        crack_details |-> crack_details ]
            /\ UNCHANGED <<analysis, LAST_ANALYSIS, dataset, report, built, threads, stream>>

-----------------------------------------------------------------------------
(* Record building: the measurement records                                *)
(* AdvancedStructuralAnalytics.retrieve_and_integrate_data makes of the    *)
(* crack detections of a request                                           *)

\* the record of the i-th crack: the measurements in millimetres, and the
\* simulated fields, which are draws of np.random (the state of the
\* generator determines them)
AA_crack_record(i, crack, seed) ==
    [ structure_id        |-> structure_id(i),
      crack_width_mm      |-> crack.width_cm * 10,
      crack_length_mm     |-> crack.length_cm * 10,
      crack_area_mm2      |-> ((crack.width_cm * crack.length_cm) \div One) * 100,
      severity_level      |-> crack.severity,
      structure_age_years |-> 5 + ((7 * i + 11 * seed) % 45),
      weather_exposure    |->
          << "Low", "Medium", "High" >>[((i + seed) % 3) + 1],
      maintenance_history |->
          << "Regular", "Irregular", "Poor" >>[((i + 2 * seed) % 3) + 1] ]

\* the loop over crack_data of retrieve_and_integrate_data
AA_build_records ==
    \E crack_data \in UNION { [1..n -> CrackValues] : n \in 1..MaxBuilt },
       seed \in SeedValues :
        /\ built' =
             [ status     |-> "built",
               crack_data |-> crack_data,
               integrated_records |->
                   [i \in DOMAIN crack_data |->
                       AA_crack_record(i, crack_data[i], seed)] ]
        /\ UNCHANGED <<analysis, LAST_ANALYSIS, dataset, report, capture, threads, stream>>

-----------------------------------------------------------------------------
(* Concurrent requests: app.run(threaded=True) serves every request on a   *)
(* thread of its own, and the threads of /api/analyze share the module     *)
(* global LAST_ANALYSIS.  A thread can be preempted between any two        *)
(* statements; the steps below are the ones between which the global is    *)
(* written and read.                                                       *)

\* analyze up to "Analysis completed successfully": the detections and the
\* results, all local to the thread
analyze_compute(t) ==
    /\ threads[t].pc = "idle"
    /\ \E ratio \in RatioValues, total_cracks \in 0..MaxThreadCracks,
          growth \in GrowthValues, u \in RandomValues, v \in RandomValues :
            threads' = [threads EXCEPT ![t] =
                IF detect_with_yolo_raises(ratio)
                THEN [ pc |-> "done", response |-> ErrorResponse("analyze") ]
                ELSE [ pc |-> "computed",
                       results |-> ScoreResults("analyze", total_cracks,
                                                growth, u, v) ]]
    /\ UNCHANGED <<analysis, LAST_ANALYSIS, dataset, report, capture, built, stream>>

\* global LAST_ANALYSIS; LAST_ANALYSIS = {..., 'analysis_summary': ...}
analyze_cache(t) ==
    /\ threads[t].pc = "computed"
    /\ LAST_ANALYSIS' = analysis_summary(threads[t].results)
    /\ threads' = [threads EXCEPT ![t].pc = "cached"]
    /\ UNCHANGED <<analysis, dataset, report, capture, built, stream>>

\* return jsonify({"status": "success", "results": results, ...,
\* "analysis_summary": LAST_ANALYSIS['analysis_summary']})
analyze_respond(t) ==
    /\ threads[t].pc = "cached"
    /\ threads' = [threads EXCEPT ![t] =
            [ pc |-> "done",
              response |-> [ status |-> "success",
                             results |-> threads[t].results,
                             analysis_summary |-> LAST_ANALYSIS ] ]]
    /\ UNCHANGED <<analysis, LAST_ANALYSIS, dataset, report, capture, built, stream>>

\* the response is sent and the thread serves the next request
analyze_return(t) ==
    /\ threads[t].pc = "done"
    /\ threads' = [threads EXCEPT ![t] = [pc |-> "idle"]]
    /\ UNCHANGED <<analysis, LAST_ANALYSIS, dataset, report, capture, built, stream>>

-----------------------------------------------------------------------------
(* /api/analyze and its analytics entry: the handler runs the detector,    *)
(* then the analytics report on the detections, and answers with the       *)
(* results or, on any exception, with HTTP 500                             *)

\* step 7 of analyze: the report of advanced_data_analytics when the module
\* was imported, an error entry otherwise
advanced_analytics_results(ADVANCED_ANALYTICS_AVAILABLE, crack_details, seed, copy_on_write) ==
    IF ADVANCED_ANALYTICS_AVAILABLE
    THEN ADA_report(
             ADA_cleanse(
                 ADA_DataFrame(crack_details,
                               [i \in 1..NumSynthetic |->
                                   synthetic_record(i, seed)]),
                 copy_on_write))
    ELSE [ error |-> "Advanced Analytics Module not available" ]

\* POST /api/analyze with a decodable image, as far as its status and its
\* results.data_science_insights.comprehensive_data_science are concerned
analyze_data_science ==
    /\ analysis.status = "none"
    /\ \E px_to_cm_ratio \in RatioValues,
       crack_details \in UNION { [1..n -> CrackValues] : n \in 0..MaxServed },
       seed \in SeedValues, copy_on_write \in BOOLEAN,
       ADVANCED_ANALYTICS_AVAILABLE \in BOOLEAN :
          analysis' =
             IF detect_with_yolo_raises(px_to_cm_ratio)
             THEN [ endpoint |-> "analyze", status |-> "error", code |-> 500,
                    px_to_cm_ratio |-> px_to_cm_ratio ]
             ELSE [ endpoint |-> "analyze", status |-> "success",
                    code |-> 200,
                    px_to_cm_ratio |-> px_to_cm_ratio,
                    total_cracks |-> Len(crack_details),
                    crack_details |-> crack_details,
                    comprehensive_data_science |->
                        advanced_analytics_results(
                            ADVANCED_ANALYTICS_AVAILABLE, crack_details,
                            seed, copy_on_write) ]
    /\ UNCHANGED <<LAST_ANALYSIS, dataset, report, capture, built, threads, stream>>

\* the response is sent: the handler has returned and holds nothing
analyze_data_science_return ==
    /\ analysis.status # "none"
    /\ analysis' = NoValue
    /\ UNCHANGED <<LAST_ANALYSIS, dataset, report, capture, built, threads, stream>>

-----------------------------------------------------------------------------
(* One-sample hypothesis tests of the four analyzers, applied to a column  *)
(* of n observations                                                       *)

\* a column of n observations without a missing cell
Sample(n, seed) == [i \in 1..n |-> (1 + ((i + seed) % 3)) * One]

\* the class of mean - m
mean_minus(data, m) ==
    IF SumSeq(data) = m * Len(data) THEN "zero" ELSE "finite"

\* AdvancedStructuralAnalytics.perform_one_sample_tests: the t-test against
\* the median, and the z-test "if n >= 30"
AA_perform_one_sample_tests(data) ==
    LET n == Len(data)
        t == fdiv(mean_minus(data, median(data)), std_class(data))
    IN  [ t_test |-> [ t_statistic |-> t, degrees_freedom |-> n - 1 ],
          z_test |-> IF n >= 30
                     THEN [ z_statistic |-> t, applicable |-> TRUE ]
                     ELSE [ z_statistic |-> "None", applicable |-> FALSE ] ]

\* ComprehensiveDataScience.hypothesis_testing, the entry of one column:
\* the t-test against 0 and the z-test "if len(data) >= 30", for a column
\* of more than one distinct value and at least 3 observations
CDS_hypothesis_testing(data) ==
    LET n == Len(dropna(data))
        t == fdiv(mean_class(data), std_class(data))
    IN  IF Cardinality(unique(data, NaN)) > 1 /\ n >= 3
        THEN [ t_test |-> [ t_statistic |-> t, degrees_freedom |-> n - 1 ],
               z_test |-> IF n >= 30
                          THEN [ z_statistic |-> t, applicable |-> TRUE ]
                          ELSE [ z_statistic |-> "None",
                                 applicable |-> FALSE ] ]
        ELSE EmptyDict

\* the sum of the squares of the cells, in units of One
SumSquares(col) == SumSeq([i \in DOMAIN col |-> (col[i] \div One) * (col[i] \div One)])

\* "p_value = 2 * (1 - min(0.95, abs(t_stat) / 3))" with t_stat =
\* mean / (std / sqrt(n)): it is above 1 when |t_stat| < 1.5, that is when
\* 4 * S^2 * (n - 1) < 9 * (n * SumSquares - S^2), S being the sum of
\* the cells; on cells that are whole multiples of One
SDS_t_p_value(data) ==
    LET s == dropna(data)
        n == Len(s)
        S == SumSeq(s) \div One
        lhs == 4 * S * S * (n - 1)
        rhs == 9 * (n * SumSquares(s) - S * S)
    IN  IF lhs < rhs THEN "(1, 2]"
        ELSE IF lhs = rhs THEN "1"
        ELSE "(0, 1)"

\* SimplifiedDataScience.simplified_hypothesis_testing, the entry of one
\* column: a t-test and nothing else
SDS_simplified_hypothesis_testing(data) ==
    LET n == Len(dropna(data))
        t == IF std_class(data) = "finite"
             THEN fdiv(mean_class(data), std_class(data)) ELSE "zero"
    IN  IF Cardinality(unique(data, NaN)) > 1 /\ n >= 3
        THEN [ t_test |-> [ t_statistic |-> t,
                            p_value |-> SDS_t_p_value(data),
                            degrees_freedom |-> n - 1 ] ]
        ELSE EmptyDict

\* the result of a one-sample test on a column of n observations
Tested(module, n, result) ==
    [ status |-> "returned", module |-> module, n |-> n, result |-> result ]

AA_one_sample_tests ==
    /\ \E n \in 2..MaxSample, seed \in SeedValues :
          report' = Tested("perform_one_sample_tests", n,
                           AA_perform_one_sample_tests(Sample(n, seed)))
    /\ UNCHANGED <<analysis, LAST_ANALYSIS, dataset, capture, built, threads, stream>>

CDS_one_sample_tests ==
    /\ \E n \in 2..MaxSample, seed \in SeedValues :
          report' = Tested("hypothesis_testing", n,
                           CDS_hypothesis_testing(Sample(n, seed)))
    /\ UNCHANGED <<analysis, LAST_ANALYSIS, dataset, capture, built, threads, stream>>

SDS_one_sample_tests ==
    /\ \E n \in 2..MaxSample, seed \in SeedValues :
          report' = Tested("simplified_hypothesis_testing", n,
                           SDS_simplified_hypothesis_testing(Sample(n, seed)))
    /\ UNCHANGED <<analysis, LAST_ANALYSIS, dataset, capture, built, threads, stream>>

\* AdvancedDataAnalytics.inferential_statistics on a frame of n rows: it
\* tests the first numeric column
ADA_one_sample_tests ==
    /\ \E n \in 2..MaxSample, seed \in SeedValues :
          report' = Tested("inferential_statistics", n,
                           ADA_inferential_statistics(
                               [ width_cm  |-> Sample(n, seed),
                                 length_cm |-> Sample(n, seed + 1) ]))
    /\ UNCHANGED <<analysis, LAST_ANALYSIS, dataset, capture, built, threads, stream>>

-----------------------------------------------------------------------------
(* One-way analysis of variance of the analyzers *)

\* the labels of df.groupby('severity') whose group has a cell of column col
\* left after dropna(); groupby leaves out the rows without a label
groups_tested(df, col) ==
    { name \in unique(df["severity"], None) :
          Len(dropna(group(df, "severity", name, col))) > 0 }

\* the numeric columns both ANOVA loops go through: more than one distinct
\* value, and at least two groups
anova_columns(df) ==
    { col \in numeric_columns(df) :
          /\ Cardinality(unique(df[col], NaN)) > 1
          /\ Cardinality(groups_tested(df, col)) >= 2 }

\* ComprehensiveDataScience.one_way_anova
CDS_one_way_anova(df) ==
    IF "severity" \notin DOMAIN df
    THEN [ error |-> "No grouping variable available for ANOVA" ]
    ELSE [ col \in anova_columns(df) |->
             [ f_statistic |->
                   f_oneway({ dropna(group(df, "severity", name, col)) :
                                name \in groups_tested(df, col) }),
               groups_tested |-> Cardinality(groups_tested(df, col)) ] ]

\* SimplifiedDataScience.simplified_anova: the within-group variance is
\* "sum([sum((x - g.mean())**2) for g in groups for x in g])", whose inner
\* sum() is given a float and raises a TypeError, so the method raises for
\* the first column it would report
SDS_simplified_anova(df) ==
    IF "severity" \notin DOMAIN df
    THEN [ error |-> "No grouping variable available for ANOVA" ]
    ELSE IF anova_columns(df) # {} THEN Raise("TypeError")
    ELSE EmptyDict

CDS_anova_analysis ==
    /\ dataset.status = "cleansed"
    /\ dataset.engine = "ComprehensiveDataScience"
    /\ report' = Outcome("one_way_anova", CDS_one_way_anova(dataset.cleaned))
    /\ UNCHANGED <<analysis, LAST_ANALYSIS, dataset, capture, built, threads, stream>>

SDS_anova_analysis ==
    /\ dataset.status = "cleansed"
    /\ dataset.engine = "SimplifiedDataScience"
    /\ report' = Outcome("simplified_anova",
                         SDS_simplified_anova(dataset.cleaned))
    /\ UNCHANGED <<analysis, LAST_ANALYSIS, dataset, capture, built, threads, stream>>

\* Series.astype(str): a missing label becomes the string 'nan'
astype_str(col) == [i \in DOMAIN col |-> IF col[i] = None THEN "nan" ELSE col[i]]

\* the frame analysis_of_variance leaves behind: with two categorical
\* columns and more than 20 rows its two-way ANOVA assigns
\* df['interaction'], a column of the frame it was given
ADA_interaction(df) ==
    LET factors == categorical_list(df)
    IN  IF /\ Len(numeric_list(df)) >= 1
           /\ Len(factors) >= 2
           /\ len(df) > 20
        THEN [ c \in DOMAIN df \cup {"interaction"} |->
                 IF c = "interaction"
                 THEN [ i \in 1..len(df) |->
                          astype_str(df[factors[1]])[i] \o "_" \o
                          astype_str(df[factors[2]])[i] ]
                 ELSE df[c] ]
        ELSE df

ADA_anova ==
    /\ dataset.status = "cleansed"
    /\ dataset.engine = "AdvancedDataAnalytics"
    /\ report' = Outcome("analysis_of_variance",
                         ADA_analysis_of_variance(dataset.cleaned))
    /\ dataset' = [dataset EXCEPT !.cleaned = ADA_interaction(dataset.cleaned)]
    /\ UNCHANGED <<analysis, LAST_ANALYSIS, capture, built, threads, stream>>

-----------------------------------------------------------------------------
(* Outlier reports of the analyzers, their IQR method *)

\* data[(data < Q1 - 1.5*IQR) | (data > Q3 + 1.5*IQR)]: the flagged values
iqr_outliers(data) ==
    LET b == iqr_bounds(data)
    IN  SelectSeq(dropna(data),
                  LAMBDA x : x < b.lower_bound \/ x > b.upper_bound)

\* df[(df[col] < Q1 - 1.5*IQR) | (df[col] > Q3 + 1.5*IQR)].index: the
\* flagged rows; a comparison with a missing cell is false
iqr_outlier_rows(col) ==
    LET b == iqr_bounds(col)
    IN  { i \in DOMAIN col :
            /\ col[i] # NaN
            /\ col[i] < b.lower_bound \/ col[i] > b.upper_bound }

\* AdvancedStructuralAnalytics.detect_and_analyze_outliers, its IQR entry,
\* for the numeric columns of more than one distinct value
AA_detect_and_analyze_outliers(df) ==
    [ col \in { c \in numeric_columns(df) :
                  Cardinality(unique(df[c], NaN)) > 1 } |->
        [ iqr_outliers |->
            [ count  |-> Len(iqr_outliers(df[col])),
              values |-> iqr_outliers(df[col]) ] ] ]

\* outlier_detection of ComprehensiveDataScience and SimplifiedDataScience,
\* its IQR entry
outlier_detection(df) ==
    [ col \in { c \in numeric_columns(df) :
                  Cardinality(unique(df[c], NaN)) > 1 } |->
        [ iqr_outliers |-> iqr_outlier_rows(df[col]) ] ]

AA_outlier_analysis ==
    /\ dataset.status = "cleansed"
    /\ dataset.engine = "AdvancedStructuralAnalytics"
    /\ report' = Outcome("detect_and_analyze_outliers",
                         AA_detect_and_analyze_outliers(dataset.cleaned))
    /\ UNCHANGED <<analysis, LAST_ANALYSIS, dataset, capture, built, threads, stream>>

CDS_outlier_detection ==
    /\ dataset.status = "cleansed"
    /\ dataset.engine = "ComprehensiveDataScience"
    /\ report' = Outcome("outlier_detection",
                         outlier_detection(dataset.cleaned))
    /\ UNCHANGED <<analysis, LAST_ANALYSIS, dataset, capture, built, threads, stream>>

SDS_outlier_detection ==
    /\ dataset.status = "cleansed"
    /\ dataset.engine = "SimplifiedDataScience"
    /\ report' = Outcome("outlier_detection",
                         outlier_detection(dataset.cleaned))
    /\ UNCHANGED <<analysis, LAST_ANALYSIS, dataset, capture, built, threads, stream>>

-----------------------------------------------------------------------------
(* Linear regression routines: the target column they choose and the rows  *)
(* they train and test on.  A routine is applied to a frame of which only   *)
(* the numeric columns, in frame order, and the number of rows matter.      *)

\* numeric columns a frame of AdvancedStructuralAnalytics can hold
AA_RegressionNames ==
    { "crack_width_mm", "crack_area_mm2", "crack_severity_numeric",
      "structural_risk_index" }

\* numeric_df.columns: lists of one to three distinct columns
AA_NumericColumns ==
    { columns \in UNION { [1..m -> AA_RegressionNames] : m \in 1..3 } :
        \A i, j \in DOMAIN columns : columns[i] = columns[j] => i = j }

\* the numeric columns of the frame integrate_heritage_data builds
CDS_NumericColumns ==
    << "crack_width_cm", "crack_length_cm", "crack_area", "confidence",
       "carbon_impact", "water_impact" >>

\* the numeric columns of the frame of AdvancedDataAnalytics when cracks
\* were detected
ADA_NumericColumns ==
    << "crack_id", "width_cm", "length_cm", "area_cm2", "confidence",
       "temperature_c", "humidity_percent", "stress_level",
       "maintenance_cost", "structural_integrity" >>

\* "for candidate in target_candidates: if candidate in numeric_df.columns:
\* target_col = candidate; break", then the fallback to the first column
target_col(target_candidates, columns) ==
    LET present == SelectSeq(target_candidates,
                             LAMBDA c : c \in Range(columns))
    IN  IF present # << >> THEN present[1] ELSE columns[1]

\* sklearn's train_test_split(X, y, test_size=0.3): ceil(0.3 * n) rows to
\* test on, the others to train on
train_test_split(n) ==
    [ split |-> "70/30",
      train |-> n - ((3 * n + 9) \div 10),
      test  |-> (3 * n + 9) \div 10 ]

\* "X_train = X_test = X": both are the full frame
full_frame(n) == [ split |-> "full", train |-> n, test |-> n ]

\* AdvancedStructuralAnalytics.comprehensive_regression_analysis, up to
\* the choice of y and X; it fits on all rows
AA_comprehensive_regression_analysis(columns, n) ==
    IF Len(columns) < 2
    THEN [ error |-> "Insufficient variables for regression analysis" ]
    ELSE [ target_col |->
               target_col(<< "structural_risk_index", "crack_area_mm2",
                             "crack_severity_numeric" >>, columns) ]

\* AdvancedStructuralAnalytics.advanced_linear_modeling
AA_advanced_linear_modeling(columns, n) ==
    IF Len(columns) < 2
    THEN [ error |-> "Insufficient variables for regression modeling" ]
    ELSE [ target_col |->
               target_col(<< "structural_risk_index",
                             "crack_severity_numeric",
                             "crack_area_mm2" >>, columns),
           rows |-> IF n > 10 THEN train_test_split(n) ELSE full_frame(n) ]

\* ComprehensiveDataScience.advanced_linear_regression: the first numeric
\* column is the target
CDS_advanced_linear_regression(columns, n) ==
    IF Len(columns) < 2
    THEN [ error |-> "Insufficient variables for regression modeling" ]
    ELSE [ target_col |-> columns[1],
           rows |-> IF n > 4 THEN train_test_split(n) ELSE full_frame(n) ]

\* AdvancedDataAnalytics.predictive_analytics, its linear regression: the
\* first three numeric columns without 'id' in their name, the last of them
\* the target; no model on 5 rows or fewer
ADA_linear_regression(columns, n) ==
    LET feature_cols ==
            first(SelectSeq(columns,
                            LAMBDA c : c \notin {"crack_id", "width_cm"}), 3)
    IN  IF Len(columns) < 2
        THEN [ error |-> "Insufficient numeric data for predictive modeling" ]
        ELSE IF Len(feature_cols) >= 2 /\ n > 5
        THEN [ target_col |-> feature_cols[Len(feature_cols)],
               rows |-> train_test_split(n) ]
        ELSE EmptyDict

\* what a regression routine returned for a frame
Regressed(module, columns, n, result) ==
    [ status |-> "returned", module |-> module, columns |-> columns,
      n |-> n, result |-> result ]

AA_regression_analysis ==
    /\ \E columns \in AA_NumericColumns, n \in 1..MaxRegressionRows :
          report' = Regressed("comprehensive_regression_analysis", columns, n,
                        AA_comprehensive_regression_analysis(columns, n))
    /\ UNCHANGED <<analysis, LAST_ANALYSIS, dataset, capture, built, threads, stream>>

AA_linear_models ==
    /\ \E columns \in AA_NumericColumns, n \in 1..MaxRegressionRows :
          report' = Regressed("advanced_linear_modeling", columns, n,
                        AA_advanced_linear_modeling(columns, n))
    /\ UNCHANGED <<analysis, LAST_ANALYSIS, dataset, capture, built, threads, stream>>

CDS_linear_models ==
    /\ \E n \in 1..MaxRegressionRows :
          report' = Regressed("advanced_linear_regression",
                        CDS_NumericColumns, n,
                        CDS_advanced_linear_regression(CDS_NumericColumns, n))
    /\ UNCHANGED <<analysis, LAST_ANALYSIS, dataset, capture, built, threads, stream>>

ADA_linear_models ==
    /\ \E n \in 1..MaxRegressionRows :
          report' = Regressed("predictive_analytics", ADA_NumericColumns, n,
                        ADA_linear_regression(ADA_NumericColumns, n))
    /\ UNCHANGED <<analysis, LAST_ANALYSIS, dataset, capture, built, threads, stream>>

-----------------------------------------------------------------------------
(* Effect size of the one-way ANOVA.  Eta-squared is in thousandths.       *)

\* AdvancedStructuralAnalytics.perform_one_way_anova.  For a column it
\* would report, its total sum of squares is the sum of a list of Series,
\* "(group - df[col].mean())**2" once per value: a Series over the rows of
\* all groups, and "... if total_sum_squares > 0 else 0" asks for the truth
\* value of a Series of more than one row, which raises a ValueError.
AA_perform_one_way_anova(df) ==
    IF "severity_level" \notin DOMAIN df
    THEN [ error |-> "No grouping variable available for ANOVA" ]
    ELSE IF \E col \in numeric_columns(df) :
               /\ Cardinality(unique(df[col], NaN)) > 1
               /\ Cardinality({ severity \in Range(df["severity_level"]) :
                      Len(dropna(group(df, "severity_level", severity, col)))
                          > 0 }) >= 2
    THEN Raise("ValueError")
    ELSE EmptyDict

\* AdvancedStructuralAnalytics.interpret_eta_squared
interpret_eta_squared(eta_sq) ==
    IF eta_sq < 10 THEN "negligible"
    ELSE IF eta_sq < 60 THEN "small"
    ELSE IF eta_sq < 140 THEN "medium"
    ELSE "large"

\* the 'effect_size' entry of AdvancedDataAnalytics.analysis_of_variance,
\* which a significant one-way ANOVA gets
ADA_effect_size(eta_squared) ==
    [ eta_squared |-> eta_squared,
      interpretation |-> IF eta_squared > 140 THEN "large"
                         ELSE IF eta_squared > 60 THEN "medium"
                         ELSE "small" ]

\* perform_one_way_anova on the frame the analyzer builds and cleanses
AA_one_way_anova ==
    /\ \E crack_data \in UNION { [1..n -> CrackValues] : n \in 0..MaxAnovaCracks },
          seed \in SeedValues :
          report' = Outcome("perform_one_way_anova",
                        AA_perform_one_way_anova(
                            AA_cleanse(AA_DataFrame(crack_data,
                                [i \in 1..NumHistorical |->
                                    historical_record(i, seed)]))))
    /\ UNCHANGED <<analysis, LAST_ANALYSIS, dataset, capture, built, threads, stream>>

AA_effect_interpretation ==
    /\ \E eta_sq \in 0..MaxEta :
          report' = [ status |-> "returned",
                      module |-> "interpret_eta_squared",
                      result |-> [ eta_squared |-> eta_sq,
                                   interpretation |->
                                       interpret_eta_squared(eta_sq) ] ]
    /\ UNCHANGED <<analysis, LAST_ANALYSIS, dataset, capture, built, threads, stream>>

ADA_effect_size_entry ==
    /\ \E eta_squared \in 0..MaxEta :
          report' = [ status |-> "returned",
                      module |-> "analysis_of_variance.effect_size",
                      result |-> ADA_effect_size(eta_squared) ]
    /\ UNCHANGED <<analysis, LAST_ANALYSIS, dataset, capture, built, threads, stream>>

-----------------------------------------------------------------------------
(* Capping, then the outlier report, in AdvancedStructuralAnalytics *)

\* the historical records when `large` of the ten draws of
\* np.random.exponential(2) for crack_width_mm are large (8 mm) and the
\* others lie between 1 and 3.5 mm; the other fields as in
\* historical_record
historical_draws(i, large) ==
    [ historical_record(i, 0) EXCEPT
        !.crack_width_mm = IF i > NumHistorical - large
                           THEN 8 * One ELSE One + 64 * (i - 1) ]

\* retrieve_and_integrate_data, cleanse_and_transform_data and
\* detect_and_analyze_outliers, one after the other on the same frame
AA_capped_outlier_analysis ==
    /\ \E crack_data \in UNION { [1..n -> CrackValues] :
                                    n \in 0..MaxCappedCracks },
          large \in 0..NumHistorical :
          LET integrated == AA_DataFrame(crack_data,
                                [i \in 1..NumHistorical |->
                                    historical_draws(i, large)])
              cleaned == AA_cleanse(integrated)
          IN  report' = [ status |-> "returned",
                          module |-> "detect_and_analyze_outliers",
                          integrated |-> integrated["crack_width_mm"],
                          cleaned |-> cleaned["crack_width_mm"],
                          result |-> AA_detect_and_analyze_outliers(cleaned) ]
    /\ UNCHANGED <<analysis, LAST_ANALYSIS, dataset, capture, built, threads, stream>>

-----------------------------------------------------------------------------
(* The hypothesis tests of SimplifiedDataScience on its cleansed frame *)

SDS_hypothesis_tests ==
    /\ dataset.status = "cleansed"
    /\ dataset.engine = "SimplifiedDataScience"
    /\ report' = Outcome("simplified_hypothesis_testing",
                     [ col \in numeric_columns(dataset.cleaned) |->
                         SDS_simplified_hypothesis_testing(
                             dataset.cleaned[col]) ])
    /\ UNCHANGED <<analysis, LAST_ANALYSIS, dataset, capture, built, threads, stream>>

-----------------------------------------------------------------------------
(* The stream endpoints.  stream_active, stream_thread and                 *)
(* current_frame_data are globals that no module-level statement defines:  *)
(* they exist once a handler has assigned them.  A worker is "unborn"      *)
(* before its thread is started, at "open" before it opens the camera, at  *)
(* "while" at the test of its loop, at "frame" between that test and the   *)
(* end of the iteration, and "done" after it has returned.                 *)

StreamWorkers == 1..MaxStreams

Undefined == [ kind |-> "undefined" ]

PyNone == [ kind |-> "None" ]

StreamInit ==
    [ stream_active      |-> "undefined",
      current_frame_data |-> Undefined,
      stream_thread      |-> 0,
      workers            |-> [w \in StreamWorkers |-> "unborn"],
      stop_stream        |-> "idle",
      stopped            |-> FALSE,
      metrics            |-> [ stream_status |-> "none", stopped |-> FALSE ] ]

\* the workers whose camera is open and whose loop has not ended
Capturing == { w \in StreamWorkers : stream.workers[w] \in {"while", "frame"} }

\* POST /api/start_stream: sets the globals, starts a new worker thread and
\* answers success; it looks at no thread started before
start_stream ==
    /\ \E w \in StreamWorkers :
          /\ stream.workers[w] = "unborn"
          /\ \A v \in StreamWorkers : v < w => stream.workers[v] # "unborn"
          /\ stream' = [stream EXCEPT !.stream_active = "True",
                                      !.current_frame_data = PyNone,
                                      !.stream_thread = w,
                                      !.workers[w] = "open",
                                      !.stopped = FALSE]
    /\ UNCHANGED <<analysis, LAST_ANALYSIS, dataset, report, capture, built,
                   threads>>

\* stream_worker, "cap = cv2.VideoCapture(0); if not cap.isOpened(): return"
stream_worker_open(w) ==
    /\ stream.workers[w] = "open"
    /\ \E opened \in BOOLEAN :
          stream' = [stream EXCEPT
                        !.workers[w] = IF opened THEN "while" ELSE "done"]
    /\ UNCHANGED <<analysis, LAST_ANALYSIS, dataset, report, capture, built,
                   threads>>

\* stream_worker, "while stream_active: ret, frame = cap.read(); if not
\* ret: break", and cap.release() after the loop
stream_worker_while(w) ==
    /\ stream.workers[w] = "while"
    /\ \E ret \in BOOLEAN :
          stream' = [stream EXCEPT
                        !.workers[w] =
                            IF stream.stream_active = "True" /\ ret
                            THEN "frame" ELSE "done"]
    /\ UNCHANGED <<analysis, LAST_ANALYSIS, dataset, report, capture, built,
                   threads>>

\* stream_worker, the rest of an iteration: every tenth frame is analysed
\* and current_frame_data assigned, in the try or in its except clause
stream_worker_frame(w) ==
    /\ stream.workers[w] = "frame"
    /\ \E tenth \in BOOLEAN :
          stream' = [stream EXCEPT
                        !.workers[w] = "while",
                        !.current_frame_data =
                            IF tenth THEN [ kind |-> "frame", worker |-> w ]
                            ELSE @]
    /\ UNCHANGED <<analysis, LAST_ANALYSIS, dataset, report, capture, built,
                   threads>>

\* POST /api/stop_stream up to its join: the two assignments, then
\* "if stream_thread and stream_thread.is_alive()", a NameError (answered
\* with HTTP 500) when no stream was ever started
stop_stream_begin ==
    /\ stream.stop_stream = "idle"
    /\ stream' = [stream EXCEPT
                     !.stream_active = "False",
                     !.current_frame_data = PyNone,
                     !.stop_stream =
                         IF stream.stream_thread = 0 THEN "idle"
                         ELSE IF stream.workers[stream.stream_thread] = "done"
                         THEN "idle" ELSE "joining",
                     !.stopped =
                         IF stream.stream_thread = 0 THEN @
                         ELSE IF stream.workers[stream.stream_thread] = "done"
                         THEN TRUE ELSE @]
    /\ UNCHANGED <<analysis, LAST_ANALYSIS, dataset, report, capture, built,
                   threads>>

\* stop_stream: stream_thread.join(timeout=2.0) returns, the thread having
\* ended or the two seconds having passed, and the handler answers success
stop_stream_return ==
    /\ stream.stop_stream = "joining"
    /\ stream' = [stream EXCEPT !.stop_stream = "idle", !.stopped = TRUE]
    /\ UNCHANGED <<analysis, LAST_ANALYSIS, dataset, report, capture, built,
                   threads>>

\* GET /api/stream_metrics: 'active' for a current_frame_data that is true,
\* 'starting' for None, HTTP 500 for the NameError of an undefined global
stream_metrics ==
    /\ stream' = [stream EXCEPT
                     !.metrics =
                         [ stream_status |->
                             CASE stream.current_frame_data.kind = "frame"
                                    -> "active"
                               [] stream.current_frame_data.kind = "None"
                                    -> "starting"
                               [] OTHER -> "error",
                           stopped |-> stream.stopped ]]
    /\ UNCHANGED <<analysis, LAST_ANALYSIS, dataset, report, capture, built,
                   threads>>

-----------------------------------------------------------------------------
(* Specifications *)

Init ==
    /\ analysis = NoValue
    /\ LAST_ANALYSIS = NoValue
    /\ dataset = NoValue
    /\ report = NoValue
    /\ capture = NoValue
    /\ built = NoValue
    /\ threads = [t \in Threads |-> [pc |-> "idle"]]
    /\ stream = StreamInit

NextScore == analyze \/ analyze_image_comprehensive

SpecScore == Init /\ [][NextScore]_vars

\* the data integration and cleansing steps of the four analyzers
NextData ==
    \/ ADA_retrieve_and_integrate_data
    \/ ADA_cleanse_and_transform_data
    \/ AA_retrieve_and_integrate_data
    \/ AA_cleanse_and_transform_data
    \/ CDS_integrate_heritage_data
    \/ CDS_cleanse_data
    \/ SDS_integrate_heritage_data
    \/ SDS_cleanse_data
    \/ RequestDone

SpecData == Init /\ [][NextData]_vars

\* the statistical modules on the datasets the analyzers build and cleanse
NextStats ==
    \/ NextData
    \/ create_comprehensive_analytics_report
    \/ AA_run_comprehensive_analysis
    \/ AA_perform_chi_square_tests
    \/ CDS_chi_square_tests
    \/ CDS_logistic_regression_analysis
    \/ SDS_simplified_chi_square
    \/ SDS_simplified_logistic_models

SpecStats == Init /\ [][NextStats]_vars

\* the calibration of the camera endpoint
NextCalib == camera_capture

SpecCalib == Init /\ [][NextCalib]_vars

\* record building, call after call
NextRecord == AA_build_records

SpecRecord == Init /\ [][NextRecord]_vars

\* the one-sample tests, call after call
NextTests ==
    \/ AA_one_sample_tests
    \/ CDS_one_sample_tests
    \/ SDS_one_sample_tests
    \/ ADA_one_sample_tests

SpecTests == Init /\ [][NextTests]_vars

\* the one-way ANOVA of the analyzers on the datasets they build and cleanse
NextAnova ==
    \/ NextData
    \/ CDS_anova_analysis
    \/ SDS_anova_analysis
    \/ ADA_anova

SpecAnova == Init /\ [][NextAnova]_vars

\* the outlier reports of the analyzers on the datasets they build and
\* cleanse
NextOutliers ==
    \/ NextData
    \/ AA_outlier_analysis
    \/ CDS_outlier_detection
    \/ SDS_outlier_detection

SpecOutliers == Init /\ [][NextOutliers]_vars

\* the linear regression routines, call after call
NextRegression ==
    \/ AA_regression_analysis
    \/ AA_linear_models
    \/ CDS_linear_models
    \/ ADA_linear_models

SpecRegression == Init /\ [][NextRegression]_vars

\* the effect size of the one-way ANOVA, call after call
NextEffect ==
    \/ AA_one_way_anova
    \/ AA_effect_interpretation
    \/ ADA_effect_size_entry

SpecEffect == Init /\ [][NextEffect]_vars

\* capping and the outlier report, request after request
NextCapping == AA_capped_outlier_analysis

SpecCapping == Init /\ [][NextCapping]_vars

\* the tests of SimplifiedDataScience that report a p-value
NextPValues ==
    \/ NextData
    \/ SDS_hypothesis_tests
    \/ SDS_anova_analysis
    \/ SDS_simplified_chi_square

SpecPValues == Init /\ [][NextPValues]_vars

\* the stream endpoints and the worker threads
NextStream ==
    \/ start_stream
    \/ \E w \in StreamWorkers : stream_worker_open(w)
    \/ \E w \in StreamWorkers : stream_worker_while(w)
    \/ \E w \in StreamWorkers : stream_worker_frame(w)
    \/ stop_stream_begin
    \/ stop_stream_return
    \/ stream_metrics

SpecStream == Init /\ [][NextStream]_vars

\* /api/analyze requests with their analytics entry
NextServe == analyze_data_science \/ analyze_data_science_return

SpecServe == Init /\ [][NextServe]_vars

\* /api/analyze requests served concurrently
NextThreads ==
    \/ \E t \in Threads : analyze_compute(t)
    \/ \E t \in Threads : analyze_cache(t)
    \/ \E t \in Threads : analyze_respond(t)
    \/ \E t \in Threads : analyze_return(t)

SpecThreads == Init /\ [][NextThreads]_vars

-----------------------------------------------------------------------------
(* Claims about the scoring engine, checked under SpecScore *)

Clamp(x, lo, hi) == Max(lo, Min(x, hi))

Scored == analysis.status = "success"

\* the exact value 100 - 5*crack_count - growth_percentage clamped to
\* [0, 100], in hundredths, of the request `analysis` answers
ExactHealth ==
    Clamp(10000 - 500 * analysis.total_cracks - analysis.growth_percentage,
          0, 10000)

\* C1 (as stated): the reported structural health score equals
\* clamp(100 - 5*crack_count - growth_percentage, 0, 100) exactly, for
\* every analysis.
C1_HealthEqualsClamp ==
    Scored => 10 * analysis.structural_health_score = ExactHealth

\* C1 (amended): the reported structural health score is
\* clamp(100 - 5*crack_count - growth_percentage, 0, 100) rounded to one
\* decimal place: a whole number of tenths within 0.05 of the clamp, and
\* inside [0, 100].
C1_HealthIsRoundedClamp ==
    Scored =>
        /\ 10 * analysis.structural_health_score - ExactHealth \in -5..5
        /\ analysis.structural_health_score \in 0..1000

\* C1 witness: an /api/analyze response whose raw score
\* 100 - 5*crack_count - growth_percentage is negative and is reported as 0.
C1_Witness ==
    /\ Scored
    /\ analysis.endpoint = "analyze"
    /\ 10000 - 500 * analysis.total_cracks - analysis.growth_percentage < 0
    /\ analysis.structural_health_score = 0

\* C2: two analysis requests with the same detections (same cracks, same
\* growth percentage) report the same HealthScore, SustainabilityScore and
\* RiskBucket.  Stated of two consecutive requests.
C2_ScoresDeterministic ==
    [][ ( /\ analysis.status = "success"
          /\ analysis'.status = "success"
          /\ analysis'.total_cracks = analysis.total_cracks
          /\ analysis'.growth_percentage = analysis.growth_percentage )
        => ( /\ analysis'.structural_health_score =
                    analysis.structural_health_score
             /\ analysis'.sustainability_score =
                    analysis.sustainability_score
             /\ analysis'.impact_level = analysis.impact_level
             /\ analysis'.risk_assessment = analysis.risk_assessment ) ]_vars

\* the exact value 10 - carbon_footprint/5 - water_footprint/100 clamped to
\* [0, 10], in ten-thousandths, of the request `analysis` answers
ExactSustainability ==
    Clamp(100000 - 20 * analysis.carbon_footprint - analysis.water_footprint,
          0, 100000)

\* C13 (as stated): the reported sustainability score equals
\* clamp(10 - carbon_footprint/5 - water_footprint/100, 0, 10) exactly, for
\* every analysis.
C13_SustainabilityEqualsClamp ==
    Scored => 100 * analysis.sustainability_score = ExactSustainability

\* C13 (amended): the reported sustainability score is
\* clamp(10 - carbon_footprint/5 - water_footprint/100, 0, 10) rounded to
\* two decimal places: a whole number of hundredths within 0.005 of the
\* clamp, and inside [0, 10].
C13_SustainabilityIsRoundedClamp ==
    Scored =>
        /\ 100 * analysis.sustainability_score - ExactSustainability
               \in -50..50
        /\ analysis.sustainability_score \in 0..1000

\* C13 witness: a response whose raw score
\* 10 - carbon_footprint/5 - water_footprint/100 is negative and is reported
\* as 0.
C13_Witness ==
    /\ Scored
    /\ 100000 - 20 * analysis.carbon_footprint - analysis.water_footprint < 0
    /\ analysis.sustainability_score = 0

\* C14: the structural health score is monotonically non-increasing in
\* crack_count with growth_percentage held fixed, and in growth_percentage
\* with crack_count held fixed: no request with more cracks (or more
\* growth) and the other input equal scores higher than the reported one.
C14_HealthMonotone ==
    Scored =>
        \A c \in 0..MaxCracks, g \in GrowthValues :
            ( \/ (c >= analysis.total_cracks /\ g = analysis.growth_percentage)
              \/ (c = analysis.total_cracks /\ g >= analysis.growth_percentage) )
            => structural_health_score(c, g) <= analysis.structural_health_score

\* C14 witness: a response whose score is strictly above the score of the
\* same growth with one more crack, and strictly above the score of the same
\* cracks with more growth.
C14_Witness ==
    /\ Scored
    /\ analysis.total_cracks < MaxCracks
    /\ structural_health_score(analysis.total_cracks + 1,
                               analysis.growth_percentage)
           < analysis.structural_health_score
    /\ \E g \in GrowthValues :
           /\ g > analysis.growth_percentage
           /\ structural_health_score(analysis.total_cracks, g)
                  < analysis.structural_health_score

\* C15: the risk bucket derived from carbon_footprint is Low exactly when
\* carbon_footprint < 15, Medium exactly when 15 <= carbon_footprint < 30,
\* and High exactly when carbon_footprint >= 30.
C15_ImpactLevelThresholds ==
    Scored =>
        /\ analysis.impact_level = "Low" <=> analysis.carbon_footprint < 1500
        /\ analysis.impact_level = "Medium" <=>
               ( /\ 1500 <= analysis.carbon_footprint
                 /\ analysis.carbon_footprint < 3000 )
        /\ analysis.impact_level = "High" <=> analysis.carbon_footprint >= 3000

\* C15 witness: a response whose carbon_footprint is exactly 15 and whose
\* bucket is Medium.
C15_Witness ==
    /\ Scored
    /\ analysis.carbon_footprint = 1500
    /\ analysis.impact_level = "Medium"

\* C16: every risk bucket value emitted in an analysis result (the
\* environmental impact_level and the predictive risk_assessment) is one of
\* Low, Medium, High, Critical.
C16_RiskBucketsInRange ==
    Scored =>
        /\ analysis.impact_level \in {"Low", "Medium", "High", "Critical"}
        /\ analysis.risk_assessment \in {"Low", "Medium", "High", "Critical"}

-----------------------------------------------------------------------------
(* Claims about the cleansing step, checked under SpecData *)

Cleansed == dataset.status = "cleansed"

\* the analyzers whose cleansing step clips to the IQR bounds
Capping ==
    dataset.engine \in {"AdvancedDataAnalytics", "AdvancedStructuralAnalytics"}

\* C5: outlier treatment in the cleansing step caps values and never
\* removes rows: the dataset has as many rows after cleansing as before.
C5_CleansingKeepsRows ==
    Cleansed => len(dataset.cleaned) = len(dataset.integrated)

\* C6: after the cleansing step no numeric column of the dataset contains
\* a missing value.
C6_NoMissingNumeric ==
    Cleansed =>
        \A c \in numeric_columns(dataset.cleaned) :
            ~has_null(dataset.cleaned[c], NaN)

\* column c of the integrated frame as the capping loop finds it, after the
\* imputation and before any capping
Imputed(c) ==
    LET col == dataset.integrated[c]
    IN  IF dataset.copy_on_write THEN col ELSE fillna(col, NaN, median(col))

\* every cell of col lies within the bounds b
AllWithin(col, b) ==
    \A i \in DOMAIN col : col[i] >= b.lower_bound /\ col[i] <= b.upper_bound

\* every non-missing cell of col lies within the bounds b
ValuesWithin(col, b) ==
    \A i \in DOMAIN col :
        col[i] # NaN => col[i] >= b.lower_bound /\ col[i] <= b.upper_bound

CappedColumns ==
    numeric_columns(dataset.integrated) \
        (IF dataset.engine = "AdvancedDataAnalytics" THEN {"crack_id"} ELSE {})

SyntheticRows ==
    LET df == dataset.integrated
    IN  IF dataset.engine = "AdvancedDataAnalytics"
        THEN IF "crack_id" \in DOMAIN df
             THEN {i \in 1..len(df) : df.crack_id[i] = NaN}
             ELSE 1..len(df)
        ELSE IF dataset.engine = "AdvancedStructuralAnalytics"
        THEN (len(df) - NumHistorical + 1)..len(df)
        ELSE {}

\* what tells a synthetic row of a frame from the others: the daily rows
\* of AdvancedDataAnalytics have a date, the historical rows of
\* AdvancedStructuralAnalytics a structure_id "hist_<n>"
SyntheticTag(df, i) ==
    IF dataset.engine = "AdvancedDataAnalytics" THEN df.date[i] # NaT
    ELSE IF dataset.engine = "AdvancedStructuralAnalytics"
    THEN df.structure_id[i] \in
             { historical_record(n, 0).structure_id : n \in 1..NumHistorical }
    ELSE FALSE

-----------------------------------------------------------------------------
(* Claims about the statistical modules, checked under SpecStats *)

\* the keys build_models gives the modules of an analysis
ModuleKeys ==
    { "descriptive_analytics", "inferential_statistics", "anova_analysis",
      "predictive_models" }

\* the report of a whole analysis request
AnalysisReport ==
    /\ report.status # "none"
    /\ report.module \in { "create_comprehensive_analytics_report",
                           "run_comprehensive_analysis" }

\* C3: the result of an analysis request contains an entry under the key
\* of every requested statistical module (its results or an 'unavailable'
\* marker), also on a dataset on which a module fails.
C3_EveryModuleHasEntry ==
    AnalysisReport =>
        /\ report.status = "returned"
        /\ "models" \in DOMAIN report.result
        /\ ModuleKeys \subseteq DOMAIN report.result.models

\* the classes of the floats an AdvancedDataAnalytics report contains
ReportedValues(models) ==
    LET d == models.descriptive_analytics.descriptive_stats
        i == models.inferential_statistics
        a == models.anova_analysis
    IN  UNION { {d[c].mean, d[c].std_dev} : c \in DOMAIN d }
        \cup (IF "sampling" \in DOMAIN i
              THEN {i.sampling.margin_of_error} ELSE {})
        \cup (IF "one_sample_t_test" \in DOMAIN i
              THEN {i.one_sample_t_test.test_statistic} ELSE {})
        \cup (IF "z_test" \in DOMAIN i THEN {i.z_test.z_score} ELSE {})
        \cup (IF "one_way_anova" \in DOMAIN a
              THEN {a.one_way_anova.f_statistic}
                   \cup UNION { {a.group_statistics[g].mean,
                                 a.group_statistics[g].std} :
                                g \in DOMAIN a.group_statistics }
              ELSE {})

\* C4: every numeric value in a result the statistical engine returns is
\* finite: a division whose denominator would be zero (the n - 1 of a
\* group's standard deviation among them) yields a finite value or is left
\* out, never NaN or an infinity.
C4_AllValuesFinite ==
    (AnalysisReport /\ report.status = "returned"
        /\ "models" \in DOMAIN report.result) =>
        ReportedValues(report.result.models) \subseteq {"zero", "finite"}

\* the number of classes of the target of the logistic regression of the
\* analyzer that produced the report
TargetClasses ==
    LET df == dataset.cleaned
    IN  IF dataset.engine = "AdvancedDataAnalytics"
        THEN Cardinality(Range(df[categorical_list(df)[1]]))
        ELSE Cardinality(high_severity(df))

\* the logistic-regression entry of the report, or an empty dict if the
\* report has none
LogisticEntry ==
    IF report.module = "create_comprehensive_analytics_report"
    THEN LET p == report.result.models.predictive_models
         IN  IF "logistic_regression" \in DOMAIN p
             THEN p.logistic_regression ELSE EmptyDict
    ELSE report.result

\* a report that covers the logistic regression
LogisticReport ==
    /\ report.status = "returned"
    /\ \/ /\ report.module = "create_comprehensive_analytics_report"
          /\ "models" \in DOMAIN report.result
       \/ report.module \in { "logistic_regression_analysis",
                              "simplified_logistic_models" }

\* C8: a logistic regression requested on a dataset whose target has fewer
\* than two distinct classes reports an error (insufficient class
\* variation) and never a fitted model.
C8_SingleClassReportsError ==
    (LogisticReport /\ TargetClasses < 2) => "error" \in DOMAIN LogisticEntry

\* a report a chi-square module returned
ChiSquareReport ==
    /\ report.status = "returned"
    /\ report.module \in { "chi_square_tests", "simplified_chi_square",
                           "perform_chi_square_tests" }

\* the categorical columns of the cleansed dataset with more than one
\* category whose expected frequency len(df) / categories is below 5
SparseColumns ==
    LET df == dataset.cleaned
    IN  { c \in categorical_columns(df) :
            /\ Cardinality(unique(df[c], None)) > 1
            /\ len(df) < 5 * Cardinality(unique(df[c], None)) }

\* C9: a chi-square goodness-of-fit test on a categorical column whose
\* expected frequency in a category is below 5 returns an explicit
\* 'unavailable' entry for that column, not a numeric statistic.
C9_SparseColumnUnavailable ==
    ChiSquareReport =>
        \A c \in SparseColumns :
            /\ c \in DOMAIN report.result
            /\ "chi_square_statistic" \notin DOMAIN report.result[c]

-----------------------------------------------------------------------------
(* Claims about calibration, checked under SpecCalib *)

\* C10: calibrating with a pixel-to-physical-unit ratio that is zero or
\* negative fails with a calibration error: no measurement record is
\* produced and the request is rejected.  Here `crack_details` are the
\* records the handler has built from the ratio of the request.
C10_BadRatioProducesNoRecord ==
    (capture.status # "none" /\ capture.px_to_cm_ratio <= 0) =>
        /\ capture.status = "error"
        /\ capture.crack_details = << >>

-----------------------------------------------------------------------------
(* Claims about record building, checked under SpecRecord *)

\* C11: calibration is idempotent: building the measurement records twice
\* from the same raw detections yields records that are equal field by
\* field.  Stated of two consecutive calls.
C11_SameDetectionsSameRecords ==
    [][ ( /\ built.status = "built"
          /\ built'.status = "built"
          /\ built'.crack_data = built.crack_data )
        => built'.integrated_records = built.integrated_records ]_vars

-----------------------------------------------------------------------------
(* Claims about concurrent requests, checked under SpecThreads *)

\* C12: under any interleaving of concurrent /api/analyze requests, the
\* response to a request is derived from that request's own input only:
\* the analysis_summary of a successful response is the summary of the
\* results of the same response.
C12_ResponseFromOwnRequest ==
    \A t \in Threads :
        (threads[t].pc = "done" /\ threads[t].response.status = "success") =>
            threads[t].response.analysis_summary =
                analysis_summary(threads[t].response.results)

-----------------------------------------------------------------------------
(* Claims about the answer of /api/analyze, checked under SpecServe *)

Served == analysis.status # "none"

\* the entry is a dictionary the handler can put in the response: the
\* analytics report, the 'failed' dictionary of its except clause, or the
\* 'not available' error
AnalyticsEntry(entry) ==
    \/ {"eda_results", "models", "analysis_metadata"} \subseteq DOMAIN entry
    \/ /\ {"error", "status"} \subseteq DOMAIN entry
       /\ entry.status = "failed"
    \/ DOMAIN entry = {"error"}

-----------------------------------------------------------------------------
(* Claims about the one-sample tests, checked under SpecTests *)

\* a z-test result is part of the result of a one-sample test
ZTestReported(result) ==
    /\ "z_test" \in DOMAIN result
    /\ "applicable" \in DOMAIN result.z_test => result.z_test.applicable

\* C19: in one-sample hypothesis testing of a numeric column, a z-test
\* result is reported exactly when the column has n >= 30 observations
\* (reported for n = 30, not reported for n = 29).
C19_ZTestFromThirty ==
    report.status = "returned" =>
        (ZTestReported(report.result) <=> report.n >= 30)

-----------------------------------------------------------------------------
(* Claims about the one-way ANOVA, checked under SpecAnova *)

AnovaModules == {"one_way_anova", "simplified_anova", "analysis_of_variance"}

\* the distinct severity labels with at least one row in a frame
SeverityLabels(df) ==
    IF "severity" \in DOMAIN df THEN unique(df["severity"], None) ELSE {}

\* the group counts a one-way ANOVA result reports
GroupCounts(result) ==
    IF Raised(result) \/ "error" \in DOMAIN result THEN {}
    ELSE IF "one_way_anova" \in DOMAIN result
    THEN IF result.one_way_anova.grouping_variable = "severity"
         THEN {result.one_way_anova.groups} ELSE {}
    ELSE { result[col].groups_tested :
             col \in DOMAIN result \ {"group_statistics"} }

\* C20: one-way ANOVA grouped by severity reports a group count equal to
\* the number of distinct severity labels that have at least one row, each
\* label counted once ([Minor, Minor, Severe, Critical] gives 3): the
\* ANOVA of a frame returns, and every count it reports is that number.
C20_GroupCountIsDistinctLabels ==
    (report.status # "none" /\ report.module \in AnovaModules) =>
        /\ report.status = "returned"
        /\ \A groups \in GroupCounts(report.result) :
              groups = Cardinality(SeverityLabels(dataset.cleaned))

-----------------------------------------------------------------------------
(* Claims about the outlier reports, checked under SpecOutliers *)

\* the crack-width column of the scenario: 1.0, 2.0 and 100.0 cm
ScenarioWidths == << 1 * One, 2 * One, 100 * One >>

\* C21: the IQR outlier method applied to the crack-width column
\* [1.0, 2.0, 100.0] flags 100.0 as an outlier.
C21_IqrFlagsHundred ==
    ( /\ report.status = "returned"
      /\ report.module = "outlier_detection"
      /\ dataset.cleaned["crack_width_cm"] = ScenarioWidths ) =>
        /\ "crack_width_cm" \in DOMAIN report.result
        /\ 3 \in report.result["crack_width_cm"].iqr_outliers

-----------------------------------------------------------------------------
(* Claims about the linear regression routines, checked under              *)
(* SpecRegression                                                          *)

RegressionModules ==
    { "comprehensive_regression_analysis", "advanced_linear_modeling",
      "advanced_linear_regression", "predictive_analytics" }

\* the priority order risk_index, crack_area, severity_ordinal, each under
\* the names the frames give it
PriorityOrder ==
    << {"structural_risk_index"},
       {"crack_area_mm2", "crack_area", "area_cm2"},
       {"crack_severity_numeric"} >>

\* the first column of the priority order present among the columns
PriorityTarget(columns) ==
    LET ranks == { k \in DOMAIN PriorityOrder :
                     PriorityOrder[k] \cap Range(columns) # {} }
        best  == CHOOSE k \in ranks : \A j \in ranks : k <= j
    IN  CHOOSE c \in PriorityOrder[best] \cap Range(columns) : TRUE

\* C22: every linear-regression routine picks as target the first column
\* present in the Dataset in the fixed priority order risk_index,
\* crack_area, severity_ordinal.
C22_TargetByPriority ==
    ( /\ report.status = "returned"
      /\ report.module \in RegressionModules
      /\ "target_col" \in DOMAIN report.result
      /\ \E k \in DOMAIN PriorityOrder :
            PriorityOrder[k] \cap Range(report.columns) # {} ) =>
        report.result.target_col = PriorityTarget(report.columns)

\* C23: linear regression splits the data 70/30 into train and test sets
\* exactly when n > 10; when n <= 10 train and test are both the full
\* dataset and no error is raised.
C23_SplitAboveTen ==
    ( /\ report.status = "returned"
      /\ report.module \in RegressionModules \ {"comprehensive_regression_analysis"}
      /\ Len(report.columns) >= 2 ) =>
        /\ "rows" \in DOMAIN report.result
        /\ report.n > 10 => report.result.rows = train_test_split(report.n)
        /\ report.n <= 10 => report.result.rows = full_frame(report.n)

-----------------------------------------------------------------------------
(* Claims about the effect size, checked under SpecEffect *)

\* negligible < 0.01, small < 0.06, medium < 0.14, large >= 0.14
EtaInterpretation(eta) ==
    IF eta < 10 THEN "negligible"
    ELSE IF eta < 60 THEN "small"
    ELSE IF eta < 140 THEN "medium"
    ELSE "large"

\* C24: every one-way ANOVA result carries the effect size eta-squared,
\* interpreted as negligible when it is < 0.01, small when < 0.06, medium
\* when < 0.14 and large when >= 0.14: the ANOVA returns, each of its
\* entries has the effect size, and every interpretation reported for an
\* eta-squared is the one of these thresholds.
C24_EtaSquaredInterpreted ==
    /\ (report.status # "none" /\ report.module = "perform_one_way_anova") =>
          /\ report.status = "returned"
          /\ \A col \in DOMAIN report.result :
                "effect_size_eta_squared" \in DOMAIN report.result[col]
    /\ ( /\ report.status = "returned"
         /\ report.module \in { "interpret_eta_squared",
                                "analysis_of_variance.effect_size" } ) =>
          report.result.interpretation =
              EtaInterpretation(report.result.eta_squared)

-----------------------------------------------------------------------------
(* Claims about the frame the modules are given, checked under SpecAnova *)

\* C25: no statistical module changes the Dataset it analyses: the columns,
\* the rows and every cell of the cleansed Dataset are the same after a
\* module as before it.
C25_ModulesLeaveDataset ==
    [][ (dataset.status = "cleansed" /\ dataset'.status = "cleansed") =>
            dataset'.cleaned = dataset.cleaned ]_vars

-----------------------------------------------------------------------------
(* Claims about the severity ordinal, checked under SpecData *)

\* None:0, Minor:1, Moderate:2, Severe:3, Critical:4, anything else 0
SeverityOrdinal(label) ==
    CASE label = "None"     -> 0
      [] label = "Minor"    -> 1
      [] label = "Moderate" -> 2
      [] label = "Severe"   -> 3
      [] label = "Critical" -> 4
      [] OTHER              -> 0

\* the column of severity labels of a cleansed frame
SeverityColumn(df) ==
    IF "severity_level" \in DOMAIN df THEN df["severity_level"]
    ELSE df["severity"]

-----------------------------------------------------------------------------
(* Claims about capping and the outlier report, checked under SpecCapping *)

\* C27: after the cleansing step has capped a numeric column, the IQR
\* outlier method run on the cleansed Dataset flags no value of that
\* column.
C27_CappedColumnsHaveNoOutliers ==
    ( /\ report.status = "returned"
      /\ report.module = "detect_and_analyze_outliers" ) =>
        \A col \in {"crack_width_mm", "crack_length_mm"}
                       \cap DOMAIN report.result :
            report.result[col].iqr_outliers.count = 0

-----------------------------------------------------------------------------
(* Claims about the p-values, checked under SpecPValues *)

\* the p-values of a result: of its entries, or of their t-tests
PValues(result) ==
    IF Raised(result) \/ "error" \in DOMAIN result THEN {}
    ELSE { IF "t_test" \in DOMAIN result[k]
           THEN result[k].t_test.p_value ELSE result[k].p_value :
             k \in { k \in DOMAIN result : result[k] # EmptyDict } }

\* C28: every p_value reported by a hypothesis test, ANOVA or chi-square
\* result lies in [0, 1].
C28_PValuesInUnitInterval ==
    ( /\ report.status = "returned"
      /\ report.module \in { "simplified_hypothesis_testing",
                             "simplified_anova", "simplified_chi_square" } ) =>
        PValues(report.result) \subseteq {"0", "(0, 1)", "1"}

-----------------------------------------------------------------------------
(* Claims about the stream endpoints, checked under SpecStream *)

\* C29: once /api/stop_stream has returned success, and until the next
\* /api/start_stream, every /api/stream_metrics call reports stream_status
\* 'starting' and never 'active'.
C29_StoppedStreamReportsStarting ==
    stream.metrics.stopped => stream.metrics.stream_status = "starting"

\* C30: across any sequence and interleaving of /api/start_stream and
\* /api/stop_stream calls, at most one stream worker thread is capturing
\* frames at any time.
C30_AtMostOneWorkerCapturing ==
    Cardinality(Capturing) <= 1

=============================================================================
